---- MODULE Spec2Model ----
(***************************************************************************)
(* Model of the sauceproxy-rest control-plane client.                      *)
(*                                                                         *)
(* The repository holds several revisions of the same package.  The        *)
(* revisions modelled here are                                             *)
(*   - src/unnamed/part_001 : package rest, serverStatusLoop/heartbeatLoop *)
(*   - src/rest.go          : package rest, the combined Tunnel.loop       *)
(*   - src/admin/rest.go    : package admin, TunnelStates.Match            *)
(* Three state machines share the module: the tunnel directory (Find and   *)
(* Match applied to a listing), the creation protocol (POST, then the      *)
(* wait-for-running poll loop against a clock) and the supervision loop.   *)
(***************************************************************************)
EXTENDS Integers, Sequences, FiniteSets, TLC

(***************************************************************************)
(* Bounds of the model.                                                    *)
(***************************************************************************)
\* Longest tunnel listing the directory model enumerates.
MaxEntries == 2
\* The clock stops at MaxTime ticks.
MaxTime == 4
\* Longest timeout, in ticks, handed to CreateWithTimeout.
MaxTimeout == 2
\* Resolution of the clock: ticks in one second.
TicksPerSecond == 2
\* Liveness updates and heartbeats recorded in one run of the supervision loop.
MaxEvents == 4
\* Largest jobs_running count a shutdown response carries.
MaxJobs == 2

VARIABLES
    \* ---- tunnel directory ----
    dirList,      \* the decoded listing: a sequence of tunnelState records
    dirListErr,   \* TRUE when the listing request fails
    dirName,      \* argument `name` / `tunnelId`
    dirDomains,   \* argument `domains`
    dirCall,      \* which function has been applied: "none" before the call
    dirMatches,   \* the ids returned, in order
    dirErr,       \* TRUE when the call returned a non-nil error
    \* ---- clock and remote service ----
    now,          \* time.Now(), in ticks
    remote,       \* the status record the service would serve now, or NoRemote
    firstRunning, \* first instant at which the record's status string was "running"
    runningSince, \* instant since which the record has stayed a running tunnel
    \* ---- creation protocol ----
    crPc,         \* position inside CreateWithTimeout / wait
    crRev,        \* revision whose create runs: "part_001" or "rest.go"
    crTimeout,    \* argument `timeout`
    crEnd,        \* wait: `end`
    crNow,        \* wait of src/rest.go: local `now`
    crWake,       \* instant at which time.Sleep(time.Second) may return
    crResponse,   \* the decoded creation response, or NoResponse
    crTunnel,     \* the Tunnel value being built / returned
    crErr,        \* the error returned
    crPolls,      \* status polls issued by wait
    crFailedPoll, \* number of the first status poll of wait that failed, 0 if none
    crRunningPoll, \* the first status response that reported "running"
    crLastPollAt, \* instant of the latest status poll of wait
    \* ---- supervision loop ----
    supRev,       \* revision whose Create started the loop, "none" before
    ssPc,         \* serverStatusLoop (part_001): position
    hbPc,         \* heartbeatLoop (part_001): position
    loopPc,       \* Tunnel.loop (src/rest.go): position
    ssStatus,     \* local `status` of the status branch
    connected,    \* local `connected` of the heartbeat code
    lastChange,   \* local `lastChange` of the heartbeat code, in ticks
    srvSends,     \* send statements executed on ServerStatus
    srvCloses,    \* close(t.ServerStatus) statements executed
    srvReceived,  \* values the caller received from ServerStatus, in order
    terminal,     \* first successful poll response that was not running
    pollFailed,   \* a status poll of the supervision loop has failed
    pingErr,      \* the latest heartbeat request returned an error
    events,       \* liveness updates received and heartbeats POSTed, in order
    \* ---- Client.Status ----
    stPc,         \* position of the call: "call" or "returned"
    stRev,        \* revision whose Status was called, "none" before
    stRecord,     \* the status record the GET would decode
    stFailed,     \* the GET fails
    stStatus,     \* result `status`
    stErr,        \* result `err` is not nil
    \* ---- transport envelope ----
    rqPc,         \* "call" before the call, "returned" after it
    rqOp,         \* the function called
    rqRev,        \* revision whose executeRequest ran
    rqId,         \* tunnel id the caller names
    rqUrl,        \* URL of the request
    rqHasTarget,  \* argument `response` is not nil
    rqBuild,      \* "ok", or the step that fails before the request is sent
    rqServer,     \* what the round trip gave: transport failure, or a response
    rqOut,        \* outcome of executeRequest
    rqRet,        \* what the call returned to the caller
    rqMethod,     \* the HTTP method of the request
    rqCodec,      \* the functions in Client.EncodeJSON and Client.DecodeJSON
    \* ---- creation document ----
    docPc,        \* "call" before the POST of a create, "posted" after it
    docRev,       \* revision whose create built the document
    docRequest,   \* argument `request`
    docPosted,    \* the jsonRequest that was POSTed
    \* ---- the handle ----
    hdPc,         \* "idle", "posted", "returned" or "failed", "started"
    hdRev,        \* revision whose Create made the handle
    hdResponseId, \* id of the creation response
    hdTunnel,     \* the Tunnel value
    hdBusy,       \* what each goroutine is running on the handle, or "none"
    hdRequests,   \* requests issued for the handle: function and target id
    hdWritten,    \* fields assigned by methods and loops after the create
    hdOver,       \* the loops that have returned
    hdPoll        \* the answer to the latest status poll of a loop

dirVars == <<dirList, dirListErr, dirName, dirDomains, dirCall, dirMatches, dirErr>>

envVars == <<now, remote, firstRunning, runningSince>>

crVars == <<crPc, crRev, crTimeout, crEnd, crNow, crWake, crResponse, crTunnel,
            crErr, crPolls, crFailedPoll, crRunningPoll, crLastPollAt>>

supVars == <<supRev, ssPc, hbPc, loopPc, ssStatus, connected, lastChange, srvSends,
             srvCloses, srvReceived, terminal, pollFailed, pingErr, events>>

stVars == <<stPc, stRev, stRecord, stFailed, stStatus, stErr>>

rqVars == <<rqPc, rqOp, rqRev, rqId, rqUrl, rqHasTarget, rqBuild, rqServer, rqOut, rqRet,
           rqMethod, rqCodec>>

docVars == <<docPc, docRev, docRequest, docPosted>>

hdVars == <<hdPc, hdRev, hdResponseId, hdTunnel, hdBusy, hdRequests, hdWritten, hdOver, hdPoll>>

vars == <<dirVars, envVars, crVars, supVars, stVars, rqVars, docVars, hdVars>>

Range(s) == {s[i] : i \in 1..Len(s)}

(***************************************************************************)
(* Tunnel directory                                                        *)
(***************************************************************************)
\* Domain names that occur in listings and queries.
Domains == {"sauce-connect.proxy", "test.proxy"}

\* Domain lists: JSON arrays, order and repetition kept.
DomainLists ==
    {<<>>}
    \cup {<<d>> : d \in Domains}
    \cup {<<d, e>> : d \in Domains, e \in Domains}

\* tunnel_identifier of a listing entry; a JSON null decodes to "".
EntryNames == {"", "fakename", "other"}

\* The name argument: "" asks for an unnamed tunnel.
QueryNames == {"", "fakename"}

\* Entry k of a listing carries the id TunnelId(k): the service gives every
\* tunnel its own id.
TunnelId(k) == k

\* tunnelState: one decoded entry of the listing.
tunnelState(k, name, domains) ==
    [Id |-> TunnelId(k), TunnelIdentifier |-> name, DomainNames |-> domains]

Listings ==
    UNION {
        {[k \in 1..n |-> tunnelState(k, f[k][1], f[k][2])] :
            f \in [1..n -> EntryNames \X DomainLists]}
        : n \in 0..MaxEntries }

\* checkOverlappingDomains with the inner comparison dropped: only the first
\* domain of each list is compared.
checkOverlappingDomainsFirstOnly(localDomains, remoteDomains) ==
    /\ localDomains # <<>>
    /\ remoteDomains # <<>>
    /\ localDomains[1] = remoteDomains[1]

\* The two nested loops return true at the first equal pair, false when the
\* loops run out.
checkOverlappingDomains(localDomains, remoteDomains) ==
    \E i \in 1..Len(localDomains) :
        \E j \in 1..Len(remoteDomains) :
            localDomains[i] = remoteDomains[j]

\* The range loop of Client.Find (part_001): one pass over the listing, at most
\* one append per entry.
RECURSIVE FindLoop(_, _, _, _)
FindLoop(name, domains, list, matches) ==
    IF list = <<>> THEN matches
    ELSE LET state == Head(list)
             hit   == IF name = ""
                      THEN checkOverlappingDomains(domains, state.DomainNames)
                      ELSE state.TunnelIdentifier = name
         IN  FindLoop(name, domains, Tail(list),
                 IF hit THEN Append(matches, state.Id) ELSE matches)

\* searchDomains is called by Client.Find of src/rest.go and defined in no
\* file of src/: any shared domain is a match.
searchDomains(domains, remoteDomains) ==
    Range(domains) \cap Range(remoteDomains) # {}

\* The range loop of Client.Find (src/rest.go): a name match appends and
\* continues; every other entry falls through to the domain test.
RECURSIVE FindLoopRest(_, _, _, _)
FindLoopRest(name, domains, list, matches) ==
    IF list = <<>> THEN matches
    ELSE LET state == Head(list)
             hit   == IF name # "" /\ state.TunnelIdentifier = name
                      THEN TRUE
                      ELSE searchDomains(domains, state.DomainNames)
         IN  FindLoopRest(name, domains, Tail(list),
                 IF hit THEN Append(matches, state.Id) ELSE matches)

\* The two inner loops of TunnelStates.Match: one append for every equal
\* (localDomain, remoteDomain) pair; the `continue` only continues the inner
\* loop.
MatchDomainAppends(domains, remoteDomains) ==
    Cardinality({p \in (1..Len(domains)) \X (1..Len(remoteDomains)) :
                    domains[p[1]] = remoteDomains[p[2]]})

RECURSIVE Repeat(_, _)
Repeat(x, n) == IF n = 0 THEN <<>> ELSE <<x>> \o Repeat(x, n - 1)

\* The outer loop of TunnelStates.Match (src/admin/rest.go).
RECURSIVE MatchLoop(_, _, _, _)
MatchLoop(tunnelId, domains, list, newStates) ==
    IF list = <<>> THEN newStates
    ELSE LET state == Head(list)
         IN  MatchLoop(tunnelId, domains, Tail(list),
                 IF state.TunnelIdentified = tunnelId
                 THEN Append(newStates, state.Id)
                 ELSE newStates \o
                      Repeat(state.Id,
                             MatchDomainAppends(domains, state.DomainNames)))

DirInputs ==
    /\ dirList \in Listings
    /\ dirListErr \in BOOLEAN
    /\ dirName \in QueryNames
    /\ dirDomains \in DomainLists
    /\ dirCall = "none"
    /\ dirMatches = <<>>
    /\ dirErr = FALSE

\* Client.Find of part_001: listTunnels, then the loop.
Find ==
    /\ UNCHANGED <<hdVars, docVars, rqVars, stVars, envVars, crVars, supVars>>
    /\ dirCall = "none"
    /\ dirCall' = "Find"
    /\ IF dirListErr
       THEN /\ dirMatches' = <<>>
            /\ dirErr' = TRUE
       ELSE /\ dirMatches' = FindLoop(dirName, dirDomains, dirList, <<>>)
            /\ dirErr' = FALSE
    /\ UNCHANGED <<dirList, dirListErr, dirName, dirDomains>>

\* Client.Find of src/rest.go.
FindRest ==
    /\ UNCHANGED <<hdVars, docVars, rqVars, stVars, envVars, crVars, supVars>>
    /\ dirCall = "none"
    /\ dirCall' = "FindRest"
    /\ IF dirListErr
       THEN /\ dirMatches' = <<>>
            /\ dirErr' = TRUE
       ELSE /\ dirMatches' = FindLoopRest(dirName, dirDomains, dirList, <<>>)
            /\ dirErr' = FALSE
    /\ UNCHANGED <<dirList, dirListErr, dirName, dirDomains>>

\* TunnelStates.Match of src/admin/rest.go, applied to a listing that
\* GetTunnelStates decoded (the entry's name field is TunnelIdentified there).
Match ==
    /\ UNCHANGED <<hdVars, docVars, rqVars, stVars, envVars, crVars, supVars>>
    /\ dirCall = "none"
    /\ ~dirListErr
    /\ dirCall' = "Match"
    /\ dirMatches' =
          MatchLoop(dirName, dirDomains,
                    [k \in 1..Len(dirList) |->
                        [Id |-> dirList[k].Id,
                         TunnelIdentified |-> dirList[k].TunnelIdentifier,
                         DomainNames |-> dirList[k].DomainNames]],
                    <<>>)
    /\ dirErr' = FALSE
    /\ UNCHANGED <<dirList, dirListErr, dirName, dirDomains>>

DirNext == Find \/ FindRest \/ Match

\* No directory call is under way.
DirIdle ==
    /\ dirList = <<>>
    /\ dirListErr = FALSE
    /\ dirName = ""
    /\ dirDomains = <<>>
    /\ dirCall = "none"
    /\ dirMatches = <<>>
    /\ dirErr = FALSE

(***************************************************************************)
(* Clock and remote service                                                *)
(***************************************************************************)
NoTime == -1
NoRemote == [Status |-> "", UserShutdown |-> "null", Host |-> ""]

\* serverStatus: the three decoded fields of a status response.  UserShutdown
\* is a *bool: null, true or false.
StatusStrings == {"new", "running", "shutdown"}
UserShutdownValues == {"null", "true", "false"}
Hosts == {"maki1", "maki2"}
serverStatus == [Status : StatusStrings, UserShutdown : UserShutdownValues, Host : Hosts]

\* The status records served while a tunnel is being created.
CreateStatuses == {r \in serverStatus : r.UserShutdown # "false"}

\* The host field of a creation response: null, or a host.
ResponseHosts == {"", "maki1"}

\* The clock advances by one tick.
Tick ==
    /\ now < MaxTime
    /\ now' = now + 1
    /\ UNCHANGED <<remote, firstRunning, runningSince>>

\* The record is one of a running tunnel: its status string says so and the
\* user has not shut it down.
IsRunning(r) == r.Status = "running" /\ r.UserShutdown # "true"

\* The service changes the tunnel's status record.
RemoteChange(records) ==
    /\ remote # NoRemote
    /\ \E r \in records :
          /\ r # remote
          /\ remote' = r
          /\ firstRunning' = IF r.Status = "running" /\ firstRunning = NoTime
                             THEN now ELSE firstRunning
          /\ runningSince' = IF ~IsRunning(r) THEN NoTime
                             ELSE IF runningSince = NoTime THEN now
                             ELSE runningSince
    /\ UNCHANGED now

EnvIdle ==
    /\ now = 0
    /\ remote = NoRemote
    /\ firstRunning = NoTime
    /\ runningSince = NoTime

(***************************************************************************)
(* Creation protocol: CreateWithTimeout and wait                           *)
(***************************************************************************)
NoResponse == [Id |-> "", Host |-> ""]
TunnelIds == {"49958ce5", "709b9c76"}
NoError == [kind |-> "none", id |-> "", after |-> 0]

\* Tunnel: the zero value has empty strings and nil channels.
ZeroTunnel == [Id |-> "", Host |-> "", ServerStatus |-> "nil", ClientStatus |-> "nil"]

\* fmt.Errorf("Tunnel %s didn't come up after %s", t.Id, timeout.String())
TimeoutError(id, timeout) == [kind |-> "timeout", id |-> id, after |-> timeout]
OtherError(kind) == [kind |-> kind, id |-> "", after |-> 0]

CrIdle ==
    /\ crPc = "idle"
    /\ crRev = "none"
    /\ crTimeout = 0
    /\ crEnd = 0
    /\ crNow = 0
    /\ crWake = 0
    /\ crResponse = NoResponse
    /\ crTunnel = ZeroTunnel
    /\ crErr = NoError
    /\ crPolls = 0
    /\ crFailedPoll = 0
    /\ crRunningPoll = NoRemote
    /\ crLastPollAt = NoTime


\* Status that takes any user_shutdown that is present for a shutdown.
StatusWhenPresent(s) ==
    IF s.UserShutdown # "null" THEN "user shutdown" ELSE s.Status

\* Client.Status that reads the literal status string alone.
StatusLiteral(s) == s.Status

\* Client.Status: user_shutdown first, the literal status string second.
Status(s) ==
    IF s.UserShutdown = "true" THEN "user shutdown" ELSE s.Status

\* The service's bookkeeping for a record r that starts to be served now.
Serve(r) ==
    /\ remote' = r
    /\ firstRunning' = IF r.Status = "running" THEN now ELSE NoTime
    /\ runningSince' = IF IsRunning(r) THEN now ELSE NoTime

\* Bookkeeping: the number of the first poll of wait whose request failed.
NoteFailedPoll(failed) ==
    crFailedPoll' = IF failed /\ crFailedPoll = 0 THEN crPolls + 1 ELSE crFailedPoll

\* The first status response that said "running", kept by the service.
NoteRunningPoll(failed) ==
    crRunningPoll' =
        IF ~failed /\ remote.Status = "running" /\ crRunningPoll = NoRemote
        THEN remote ELSE crRunningPoll

\* waitPoll that returns the error alone, as the wait of src/rest.go does:
\* the host of the response is dropped.
waitPollWithoutHost(failed, status) ==
    IF failed
    THEN [return |-> TRUE, host |-> "", err |-> OtherError("poll")]
    ELSE [return |-> status.Status = "running", host |-> "", err |-> NoError]

\* waitPoll that takes a failed poll for a status that is not "running" yet
\* and goes on to the deadline test.
waitPollRetries(failed, status) ==
    IF ~failed /\ status.Status = "running"
    THEN [return |-> TRUE, host |-> status.Host, err |-> NoError]
    ELSE [return |-> FALSE, host |-> "", err |-> NoError]

\* Tunnel.wait of part_001, one pass of the loop up to the deadline test:
\* a failed poll returns its error, a "running" status returns the host of
\* that response, anything else goes on to the deadline test.
waitPoll(failed, status) ==
    IF failed
    THEN [return |-> TRUE, host |-> "", err |-> OtherError("poll")]
    ELSE IF status.Status = "running"
         THEN [return |-> TRUE, host |-> status.Host, err |-> NoError]
         ELSE [return |-> FALSE, host |-> "", err |-> NoError]

\* A deadline test that never finds the deadline passed.
AfterNever(t, end) == FALSE

\* time.Now().After(end)
After(t, end) == t > end

\* createReturn that makes the two channels whatever wait returned.
createReturnAlwaysChannels(tunnel, host, err) ==
    [tunnel EXCEPT !.Host = host, !.ServerStatus = "made", !.ClientStatus = "made"]

\* CreateWithTimeout after wait returned (host, err): the host is stored, and
\* the channels are made only when err is nil.
createReturn(tunnel, host, err) ==
    [tunnel EXCEPT
        !.Host = host,
        !.ServerStatus = IF err = NoError THEN "made" ELSE "nil",
        !.ClientStatus = IF err = NoError THEN "made" ELSE "nil"]

\* A create that goes on to wait whatever the POST returned.
afterPostAlwaysWaits(err, waitPc) == waitPc

\* CreateWithTimeout after err = c.executeRequest("POST", ...): `if err !=
\* nil { return }`, otherwise it goes on to its wait.
afterPost(err, waitPc) == IF err # NoError THEN "returned" ELSE waitPc

\* Client.CreateWithTimeout of part_001 up to the call of wait: the POST
\* either fails, and the zero Tunnel is returned with the error, or its
\* response gives the Tunnel its Id.
CreateWithTimeout ==
    /\ crPc = "idle"
    /\ crRev' = "part_001"
    /\ \/ /\ crErr' = OtherError("post")
          /\ crPc' = afterPost(crErr', "wait")
          /\ UNCHANGED <<crResponse, crTunnel, remote, firstRunning, runningSince>>
       \/ \E id \in TunnelIds, host \in ResponseHosts, r \in CreateStatuses :
             /\ crResponse' = [Id |-> id, Host |-> host]
             /\ crTunnel' = [crTunnel EXCEPT !.Id = id]
             /\ Serve(r)
             /\ crPc' = afterPost(NoError, "wait")
             /\ UNCHANGED crErr
    /\ UNCHANGED <<now, crTimeout, crEnd, crNow, crWake, crPolls, crFailedPoll, crRunningPoll,
                   crLastPollAt>>
    /\ UNCHANGED <<hdVars, docVars, rqVars, stVars, dirVars, supVars>>

\* Tunnel.wait of part_001: var end = time.Now().Add(timeout)
WaitStart ==
    /\ crPc = "wait"
    /\ crRev = "part_001"
    /\ crEnd' = now + crTimeout
    /\ crPc' = "poll"
    /\ UNCHANGED <<crRev, crTimeout, crNow, crWake, crResponse, crTunnel, crErr,
                   crPolls, crFailedPoll, crRunningPoll,
                   crLastPollAt>>
    /\ UNCHANGED <<hdVars, docVars, rqVars, stVars, dirVars, envVars, supVars>>

\* Tunnel.wait of part_001: t.Client.status(t.Id) and the two returns.
WaitPoll ==
    /\ crPc = "poll"
    /\ \E failed \in BOOLEAN :
          LET o == waitPoll(failed, remote) IN
          /\ crPolls' = crPolls + 1
          /\ NoteFailedPoll(failed)
          /\ crLastPollAt' = now
          /\ NoteRunningPoll(failed)
          /\ IF o.return
             THEN /\ crTunnel' = createReturn(crTunnel, o.host, o.err)
                  /\ crErr' = o.err
                  /\ crPc' = "returned"
             ELSE /\ crPc' = "check"
                  /\ UNCHANGED <<crTunnel, crErr>>
    /\ UNCHANGED <<crRev, crTimeout, crEnd, crNow, crWake, crResponse>>
    /\ UNCHANGED <<hdVars, docVars, rqVars, stVars, dirVars, envVars, supVars>>

\* A wait that deletes the tunnel when it gives up.
afterTimeoutDeletes(r) == NoRemote

\* What the service serves after wait has left its loop: the loop is
\* followed by `return "", fmt.Errorf(...)`, no request is made and the
\* record stays as it is.
afterTimeout(r) == r

\* Tunnel.wait of part_001: the deadline test after a poll that was not
\* "running": past the deadline the loop breaks and the timeout error is
\* returned, otherwise the goroutine sleeps a second.
WaitCheck ==
    /\ crPc = "check"
    /\ IF After(now, crEnd)
       THEN LET err == TimeoutError(crTunnel.Id, crTimeout) IN
            /\ crTunnel' = createReturn(crTunnel, "", err)
            /\ crErr' = err
            /\ crPc' = "returned"
            /\ remote' = afterTimeout(remote)
            /\ UNCHANGED crWake
       ELSE /\ crPc' = "sleep"
            /\ crWake' = now + TicksPerSecond
            /\ UNCHANGED <<crTunnel, crErr, remote>>
    /\ UNCHANGED <<crRev, crTimeout, crEnd, crNow, crResponse, crPolls, crFailedPoll, crRunningPoll,
                   crLastPollAt>>
    /\ UNCHANGED <<now, firstRunning, runningSince>>
    /\ UNCHANGED <<hdVars, docVars, rqVars, stVars, dirVars, supVars>>

\* time.Sleep(time.Second) returns, no earlier than a second after the call.
WaitWake ==
    /\ crPc = "sleep"
    /\ now >= crWake
    /\ crPc' = "poll"
    /\ UNCHANGED <<crRev, crTimeout, crEnd, crNow, crWake, crResponse, crTunnel,
                   crErr, crPolls, crFailedPoll, crRunningPoll,
                   crLastPollAt>>
    /\ UNCHANGED <<hdVars, docVars, rqVars, stVars, dirVars, envVars, supVars>>

\* Client.createWithTimeout of src/rest.go up to the call of wait:
\* os.Hostname or Getrlimit may fail before anything is sent; otherwise as
\* in part_001.
createWithTimeoutRest ==
    /\ crPc = "idle"
    /\ crRev' = "rest.go"
    /\ \/ /\ \E kind \in {"hostname", "rlimit", "post"} : crErr' = OtherError(kind)
          /\ crPc' = afterPost(crErr', "restWait")
          /\ UNCHANGED <<crResponse, crTunnel, remote, firstRunning, runningSince>>
       \/ \E id \in TunnelIds, r \in CreateStatuses :
             /\ crResponse' = [Id |-> id, Host |-> ""]
             /\ crTunnel' = [crTunnel EXCEPT !.Id = id]
             /\ Serve(r)
             /\ crPc' = afterPost(NoError, "restWait")
             /\ UNCHANGED crErr
    /\ UNCHANGED <<now, crTimeout, crEnd, crNow, crWake, crPolls, crFailedPoll, crRunningPoll,
                   crLastPollAt>>
    /\ UNCHANGED <<hdVars, docVars, rqVars, stVars, dirVars, supVars>>

\* Tunnel.wait of src/rest.go: var now = time.Now(); var end = now.Add(timeout)
WaitStartRest ==
    /\ crPc = "restWait"
    /\ crNow' = now
    /\ crEnd' = now + crTimeout
    /\ crPc' = "restTest"
    /\ UNCHANGED <<crRev, crTimeout, crWake, crResponse, crTunnel, crErr, crPolls, crFailedPoll,
                   crRunningPoll,
                   crLastPollAt>>
    /\ UNCHANGED <<hdVars, docVars, rqVars, stVars, dirVars, envVars, supVars>>

\* Tunnel.wait of src/rest.go: the loop condition !now.After(end), tested on
\* the local `now`; when it fails the timeout error is returned.
WaitTestRest ==
    /\ crPc = "restTest"
    /\ IF ~After(crNow, crEnd)
       THEN /\ crPc' = "restPoll"
            /\ UNCHANGED <<crTunnel, crErr, remote>>
       ELSE LET err == TimeoutError(crTunnel.Id, crTimeout) IN
            /\ crTunnel' = createReturn(crTunnel, "", err)
            /\ crErr' = err
            /\ crPc' = "returned"
            /\ remote' = afterTimeout(remote)
    /\ UNCHANGED <<crRev, crTimeout, crEnd, crNow, crWake, crResponse, crPolls, crFailedPoll,
                   crRunningPoll,
                   crLastPollAt>>
    /\ UNCHANGED <<now, firstRunning, runningSince>>
    /\ UNCHANGED <<hdVars, docVars, rqVars, stVars, dirVars, supVars>>

\* Tunnel.wait of src/rest.go: t.Status(), the effective status; an error
\* or "running" returns, anything else sleeps a second.
WaitPollRest ==
    /\ crPc = "restPoll"
    /\ \E failed \in BOOLEAN :
          /\ crPolls' = crPolls + 1
          /\ NoteFailedPoll(failed)
          /\ crLastPollAt' = now
          /\ NoteRunningPoll(failed)
          /\ IF failed
             THEN /\ crTunnel' = createReturn(crTunnel, "", OtherError("poll"))
                  /\ crErr' = OtherError("poll")
                  /\ crPc' = "returned"
                  /\ UNCHANGED crWake
             ELSE IF Status(remote) = "running"
             THEN /\ crTunnel' = createReturn(crTunnel, "", NoError)
                  /\ crErr' = NoError
                  /\ crPc' = "returned"
                  /\ UNCHANGED crWake
             ELSE /\ crPc' = "restSleep"
                  /\ crWake' = now + TicksPerSecond
                  /\ UNCHANGED <<crTunnel, crErr>>
    /\ UNCHANGED <<crRev, crTimeout, crEnd, crNow, crResponse>>
    /\ UNCHANGED <<hdVars, docVars, rqVars, stVars, dirVars, envVars, supVars>>

\* Tunnel.wait of src/rest.go: the sleep returns and now = time.Now().
WaitWakeRest ==
    /\ crPc = "restSleep"
    /\ now >= crWake
    /\ crNow' = now
    /\ crPc' = "restTest"
    /\ UNCHANGED <<crRev, crTimeout, crEnd, crWake, crResponse, crTunnel, crErr,
                   crPolls, crFailedPoll, crRunningPoll,
                   crLastPollAt>>
    /\ UNCHANGED <<hdVars, docVars, rqVars, stVars, dirVars, envVars, supVars>>

\* Tunnel.status of the admin package (part_000): user_shutdown first, then
\* "running" or "terminated".
statusAdmin(s) ==
    IF s.UserShutdown = "true" THEN "user shutdown"
    ELSE IF s.Status # "running" THEN "terminated" ELSE "running"

\* time.Now().Before(end)
Before(t, end) == t < end

\* Client.createWithTimeouts of the admin package (part_000) up to the call
\* of wait: os.Hostname, Getrlimit, the encoding or the POST may fail;
\* otherwise the response gives the Tunnel its Id.
createWithTimeouts ==
    /\ crPc = "idle"
    /\ crRev' = "part_000"
    /\ \/ /\ \E kind \in {"hostname", "rlimit", "post"} : crErr' = OtherError(kind)
          /\ crPc' = "returned"
          /\ UNCHANGED <<crResponse, crTunnel, remote, firstRunning, runningSince>>
       \/ \E id \in TunnelIds, r \in CreateStatuses :
             /\ crResponse' = [Id |-> id, Host |-> ""]
             /\ crTunnel' = [crTunnel EXCEPT !.Id = id]
             /\ Serve(r)
             /\ crPc' = "adminWait"
             /\ UNCHANGED crErr
    /\ UNCHANGED <<now, crTimeout, crEnd, crNow, crWake, crPolls, crFailedPoll, crRunningPoll,
                   crLastPollAt>>
    /\ UNCHANGED <<hdVars, docVars, rqVars, stVars, dirVars, supVars>>

\* Tunnel.wait of part_000: var end = time.Now().Add(timeout)
WaitStartAdmin ==
    /\ crPc = "adminWait"
    /\ crEnd' = now + crTimeout
    /\ crPc' = "adminTest"
    /\ UNCHANGED <<crRev, crTimeout, crNow, crWake, crResponse, crTunnel, crErr,
                   crPolls, crFailedPoll, crRunningPoll, crLastPollAt>>
    /\ UNCHANGED <<hdVars, docVars, rqVars, stVars, dirVars, envVars, supVars>>

\* Tunnel.wait of part_000: the loop condition time.Now().Before(end); when
\* it fails the timeout error is returned.
WaitTestAdmin ==
    /\ crPc = "adminTest"
    /\ IF Before(now, crEnd)
       THEN /\ crPc' = "adminPoll"
            /\ UNCHANGED crErr
       ELSE /\ crErr' = TimeoutError(crTunnel.Id, crTimeout)
            /\ crPc' = "returned"
    /\ UNCHANGED <<crRev, crTimeout, crEnd, crNow, crWake, crResponse, crTunnel,
                   crPolls, crFailedPoll, crRunningPoll, crLastPollAt>>
    /\ UNCHANGED <<hdVars, docVars, rqVars, stVars, dirVars, envVars, supVars>>

\* Tunnel.wait of part_000: t.status(); an error or "running" returns,
\* anything else sleeps a second.
WaitPollAdmin ==
    /\ crPc = "adminPoll"
    /\ \E failed \in BOOLEAN :
          /\ crPolls' = crPolls + 1
          /\ NoteFailedPoll(failed)
          /\ crLastPollAt' = now
          /\ NoteRunningPoll(failed)
          /\ IF failed
             THEN /\ crErr' = OtherError("poll")
                  /\ crPc' = "returned"
                  /\ UNCHANGED crWake
             ELSE IF statusAdmin(remote) = "running"
             THEN /\ crErr' = NoError
                  /\ crPc' = "returned"
                  /\ UNCHANGED crWake
             ELSE /\ crPc' = "adminSleep"
                  /\ crWake' = now + TicksPerSecond
                  /\ UNCHANGED crErr
    /\ UNCHANGED <<crRev, crTimeout, crEnd, crNow, crResponse, crTunnel>>
    /\ UNCHANGED <<hdVars, docVars, rqVars, stVars, dirVars, envVars, supVars>>

\* Tunnel.wait of part_000: the sleep returns.
WaitWakeAdmin ==
    /\ crPc = "adminSleep"
    /\ now >= crWake
    /\ crPc' = "adminTest"
    /\ UNCHANGED <<crRev, crTimeout, crEnd, crNow, crWake, crResponse, crTunnel,
                   crErr, crPolls, crFailedPoll, crRunningPoll, crLastPollAt>>
    /\ UNCHANGED <<hdVars, docVars, rqVars, stVars, dirVars, envVars, supVars>>

\* The clock and the service, while a create is under way.
CrTick ==
    /\ Tick
    /\ crPc \notin {"idle", "returned", "created"}
    /\ UNCHANGED <<hdVars, docVars, rqVars, stVars, dirVars, crVars, supVars>>

CrRemoteChange ==
    /\ RemoteChange(CreateStatuses)
    /\ crPc \notin {"idle", "returned", "created"}
    /\ UNCHANGED <<hdVars, docVars, rqVars, stVars, dirVars, crVars, supVars>>

CrNext ==
    \/ CreateWithTimeout \/ WaitStart \/ WaitPoll \/ WaitCheck \/ WaitWake
    \/ createWithTimeoutRest \/ WaitStartRest \/ WaitTestRest \/ WaitPollRest
    \/ WaitWakeRest
    \/ createWithTimeouts \/ WaitStartAdmin \/ WaitTestAdmin \/ WaitPollAdmin
    \/ WaitWakeAdmin
    \/ CrTick \/ CrRemoteChange

\* A caller is about to create a tunnel with some timeout.
CrInputs ==
    /\ crPc = "idle"
    /\ crRev = "none"
    /\ crTimeout \in 0..MaxTimeout
    /\ crEnd = 0
    /\ crNow = 0
    /\ crWake = 0
    /\ crResponse = NoResponse
    /\ crTunnel = ZeroTunnel
    /\ crErr = NoError
    /\ crPolls = 0
    /\ crFailedPoll = 0
    /\ crRunningPoll = NoRemote
    /\ crLastPollAt = NoTime

(***************************************************************************)
(* Supervision loop                                                        *)
(***************************************************************************)
\* The status responses a supervising poll can get: status string and
\* user_shutdown (the host plays no part after the create, and a tunnel that
\* has been running is never "new" again).
PollResponses ==
    {r \in serverStatus : r.Host = "maki1" /\ r.Status # "new"}

NoTerminal == NoRemote

\* ClientStatus.LastStatusChange, in Unix seconds: the instant the run
\* starts at and one second later, which is ahead of the clock during the
\* first second of the run and behind it afterwards.
Stamps == {0, 1}

\* ClientStatus: what the caller sends on the ClientStatus channel.
ClientStatus == [Connected : BOOLEAN, LastStatusChange : Stamps]

\* time.Unix(sec, 0), in ticks.
Unix(sec) == sec * TicksPerSecond

\* time.Since(t)
Since(t) == now - t

\* int64(duration.Seconds()): the conversion truncates towards zero.
Int64Seconds(duration) ==
    IF duration >= 0
    THEN duration \div TicksPerSecond
    ELSE -((-duration) \div TicksPerSecond)

\* heartBeatRequest, as Client.Ping fills it.
heartBeatRequest(isConnected, duration) ==
    [KGPConnected |-> isConnected, StatusChangeDuration |-> Int64Seconds(duration)]

\* One entry of `events`: a liveness update as the loop received it (value
\* is its LastStatusChange).
Updated(clientStatus) ==
    [kind |-> "update", connected |-> clientStatus.Connected,
     value |-> clientStatus.LastStatusChange, at |-> NoTime]

\* One entry of `events`: a heartbeat POST as the service logs it (value is
\* its kgp_seconds_since_last_status_change), with the instant it was sent.
Posted(kind, h) ==
    [kind |-> kind, connected |-> h.KGPConnected,
     value |-> h.StatusChangeDuration, at |-> now]

\* The heartbeat code's snapshot after the receive of an update that keeps
\* the previous lastChange.
receiveUpdateKeepsLastChange(clientStatus, old) ==
    [connected |-> clientStatus.Connected, lastChange |-> old.lastChange]

\* The two assignments after the receive from ClientStatus.
receiveUpdate(clientStatus, old) ==
    [connected |-> clientStatus.Connected,
     lastChange |-> Unix(clientStatus.LastStatusChange)]

\* serverStatusLoop goes on with the next tick after close(t.ServerStatus).
ssAfterCloseNextTick == "tick"

\* serverStatusLoop after close(t.ServerStatus): return.
ssAfterClose == "done"

\* Tunnel.loop goes back to its select after close(t.ServerStatus).
loopAfterCloseSelect == "select"

\* Tunnel.loop after close(t.ServerStatus): return.
loopAfterClose == "done"

\* The service notes the first successful poll response that is not a
\* running tunnel.
NoteTerminal(failed, r) ==
    terminal' =
        IF /\ ~failed
           /\ terminal = NoTerminal
           /\ (r.UserShutdown = "true" \/ r.Status # "running")
        THEN r ELSE terminal

\* statusBranch that leaves the loop when the poll failed.
statusBranchStopsOnError(failed, status) ==
    IF failed THEN "done"
    ELSE IF status # "running" THEN "send" ELSE "tick"

\* serverStatusLoop after t.Status() returned (status, err): an error is
\* dropped and "running" waits for the next tick, anything else is sent.
statusBranch(failed, status) ==
    IF failed THEN "tick"
    ELSE IF status # "running" THEN "send" ELSE "tick"

\* pingBranch that leaves the loop when the heartbeat request failed.
pingBranchStopsOnError(failed) == IF failed THEN "done" ELSE "select"

\* heartbeatLoop after t.Client.Ping returned err: the error is dropped and
\* the loop is back at its select.
pingBranch(failed) == "select"

SupIdle ==
    /\ supRev = "none"
    /\ ssPc = "off"
    /\ hbPc = "off"
    /\ loopPc = "off"
    /\ ssStatus = ""
    /\ connected = FALSE
    /\ lastChange = 0
    /\ srvSends = 0
    /\ srvCloses = 0
    /\ srvReceived = <<>>
    /\ terminal = NoTerminal
    /\ pollFailed = FALSE
    /\ pingErr = FALSE
    /\ events = <<>>

\* createStarts that holds whatever CreateWithTimeout returned.
createStartsAlways(err) == TRUE

\* Client.Create: `if err == nil` before the go statements.
createStarts(err) == err = NoError

\* Client.Create of part_001 after its CreateWithTimeout returned: the two
\* go statements when err is nil, and the return.
Create ==
    /\ crPc = "returned"
    /\ crRev = "part_001"
    /\ crPc' = "created"
    /\ IF createStarts(crErr)
       THEN /\ supRev' = "part_001"
            /\ ssPc' = "tick"
            /\ hbPc' = "start"
       ELSE UNCHANGED <<supRev, ssPc, hbPc>>
    /\ UNCHANGED <<loopPc, ssStatus, connected, lastChange, srvSends, srvCloses,
                   srvReceived, terminal, pollFailed, pingErr, events>>
    /\ UNCHANGED <<crRev, crTimeout, crEnd, crNow, crWake, crResponse, crTunnel,
                   crErr, crPolls, crFailedPoll, crRunningPoll, crLastPollAt>>
    /\ UNCHANGED <<hdVars, docVars, rqVars, stVars, dirVars, envVars>>

\* heartbeatLoop: the ticker and the initial snapshot, connected = false and
\* lastChange = time.Now().
HeartbeatStart ==
    /\ hbPc = "start"
    /\ connected' = FALSE
    /\ lastChange' = now
    /\ hbPc' = "select"
    /\ UNCHANGED <<supRev, ssPc, loopPc, ssStatus, srvSends, srvCloses, srvReceived,
                   terminal, pollFailed, pingErr, events>>
    /\ UNCHANGED <<hdVars, docVars, rqVars, stVars, dirVars, envVars, crVars>>

\* heartbeatLoop, case clientStatus := <-t.ClientStatus: the caller's send
\* and the receive meet; the snapshot is overwritten.
ReceiveClientStatus ==
    /\ hbPc = "select"
    /\ Len(events) + 2 <= MaxEvents
    /\ \E clientStatus \in ClientStatus :
          LET snap == receiveUpdate(clientStatus,
                          [connected |-> connected, lastChange |-> lastChange])
          IN  /\ connected' = snap.connected
              /\ lastChange' = snap.lastChange
              /\ events' = Append(events, Updated(clientStatus))
    /\ hbPc' = "ping"
    /\ UNCHANGED <<supRev, ssPc, loopPc, ssStatus, srvSends, srvCloses, srvReceived,
                   terminal, pollFailed, pingErr>>
    /\ UNCHANGED <<hdVars, docVars, rqVars, stVars, dirVars, envVars, crVars>>

\* heartbeatLoop, still in the ClientStatus case: t.Client.Ping with the
\* snapshot; the error, if any, is dropped.
PingUpdate ==
    /\ hbPc = "ping"
    /\ events' = Append(events,
           Posted("postUpdate", heartBeatRequest(connected, Since(lastChange))))
    /\ \E failed \in BOOLEAN :
          /\ pingErr' = failed
          /\ hbPc' = pingBranch(failed)
    /\ UNCHANGED <<supRev, ssPc, loopPc, ssStatus, connected, lastChange, srvSends,
                   srvCloses, srvReceived, terminal, pollFailed>>
    /\ UNCHANGED <<hdVars, docVars, rqVars, stVars, dirVars, envVars, crVars>>

\* heartbeatLoop, case <-heartbeatTicker.C: t.Client.Ping with the snapshot.
PingTick ==
    /\ hbPc = "select"
    /\ Len(events) + 1 <= MaxEvents
    /\ events' = Append(events,
           Posted("postTick", heartBeatRequest(connected, Since(lastChange))))
    /\ \E failed \in BOOLEAN :
          /\ pingErr' = failed
          /\ hbPc' = pingBranch(failed)
    /\ UNCHANGED <<supRev, ssPc, loopPc, ssStatus, connected, lastChange,
                   srvSends, srvCloses, srvReceived, terminal, pollFailed>>
    /\ UNCHANGED <<hdVars, docVars, rqVars, stVars, dirVars, envVars, crVars>>

\* serverStatusLoop, one tick: t.Status(); an error is dropped, "running"
\* waits for the next tick, anything else is sent on ServerStatus.
StatusTick ==
    /\ ssPc = "tick"
    /\ \E failed \in BOOLEAN, r \in PollResponses :
          /\ NoteTerminal(failed, r)
          /\ pollFailed' = (pollFailed \/ failed)
          /\ ssPc' = statusBranch(failed, Status(r))
          /\ IF ssPc' = "send"
             THEN /\ ssStatus' = Status(r)
                  /\ srvSends' = srvSends + 1
             ELSE UNCHANGED <<ssStatus, srvSends>>
    /\ UNCHANGED <<supRev, hbPc, loopPc, connected, lastChange, srvCloses,
                   srvReceived, pingErr, events>>
    /\ UNCHANGED <<hdVars, docVars, rqVars, stVars, dirVars, envVars, crVars>>

\* t.ServerStatus <- status meets the caller's receive: the channel is
\* unbuffered, the send returns when the caller has the value.
ReceiveServerStatus ==
    /\ ssPc = "send"
    /\ srvReceived' = Append(srvReceived, ssStatus)
    /\ ssPc' = "close"
    /\ UNCHANGED <<supRev, hbPc, loopPc, ssStatus, connected, lastChange, srvSends,
                   srvCloses, terminal, pollFailed, pingErr, events>>
    /\ UNCHANGED <<hdVars, docVars, rqVars, stVars, dirVars, envVars, crVars>>

\* serverStatusLoop: close(t.ServerStatus); return.
CloseServerStatus ==
    /\ ssPc = "close"
    /\ srvCloses' = srvCloses + 1
    /\ ssPc' = ssAfterClose
    /\ UNCHANGED <<supRev, hbPc, loopPc, ssStatus, connected, lastChange, srvSends,
                   srvReceived, terminal, pollFailed, pingErr, events>>
    /\ UNCHANGED <<hdVars, docVars, rqVars, stVars, dirVars, envVars, crVars>>

\* Client.Create of src/rest.go after its createWithTimeout returned:
\* go tunnel.loop(5s, 30s) when err is nil, and the return.
CreateRest ==
    /\ crPc = "returned"
    /\ crRev = "rest.go"
    /\ crPc' = "created"
    /\ IF createStarts(crErr)
       THEN /\ supRev' = "rest.go"
            /\ loopPc' = "first"
       ELSE UNCHANGED <<supRev, loopPc>>
    /\ UNCHANGED <<ssPc, hbPc, ssStatus, connected, lastChange, srvSends, srvCloses,
                   srvReceived, terminal, pollFailed, pingErr, events>>
    /\ UNCHANGED <<crRev, crTimeout, crEnd, crNow, crWake, crResponse, crTunnel,
                   crErr, crPolls, crFailedPoll, crRunningPoll, crLastPollAt>>
    /\ UNCHANGED <<hdVars, docVars, rqVars, stVars, dirVars, envVars>>

\* Tunnel.loop: the receive from ClientStatus, before the loop (the initial
\* snapshot) or as a case of the select; the snapshot is overwritten and
\* nothing is sent.
LoopReceiveClientStatus ==
    /\ loopPc \in {"first", "select"}
    /\ Len(events) + 1 <= MaxEvents
    /\ \E clientStatus \in ClientStatus :
          LET snap == receiveUpdate(clientStatus,
                          [connected |-> connected, lastChange |-> lastChange])
          IN  /\ connected' = snap.connected
              /\ lastChange' = snap.lastChange
              /\ events' = Append(events, Updated(clientStatus))
    /\ loopPc' = "select"
    /\ UNCHANGED <<supRev, ssPc, hbPc, ssStatus, srvSends, srvCloses, srvReceived,
                   terminal, pollFailed, pingErr>>
    /\ UNCHANGED <<hdVars, docVars, rqVars, stVars, dirVars, envVars, crVars>>

\* Tunnel.loop, case <-termTick.
LoopStatusTick ==
    /\ loopPc = "select"
    /\ \E failed \in BOOLEAN, r \in PollResponses :
          /\ NoteTerminal(failed, r)
          /\ pollFailed' = (pollFailed \/ failed)
          /\ IF ~failed /\ Status(r) # "running"
             THEN /\ ssStatus' = Status(r)
                  /\ srvSends' = srvSends + 1
                  /\ loopPc' = "send"
             ELSE UNCHANGED <<ssStatus, srvSends, loopPc>>
    /\ UNCHANGED <<supRev, ssPc, hbPc, connected, lastChange, srvCloses,
                   srvReceived, pingErr, events>>
    /\ UNCHANGED <<hdVars, docVars, rqVars, stVars, dirVars, envVars, crVars>>

\* Tunnel.loop: the send on ServerStatus meets the caller's receive.
LoopReceiveServerStatus ==
    /\ loopPc = "send"
    /\ srvReceived' = Append(srvReceived, ssStatus)
    /\ loopPc' = "close"
    /\ UNCHANGED <<supRev, ssPc, hbPc, ssStatus, connected, lastChange, srvSends,
                   srvCloses, terminal, pollFailed, pingErr, events>>
    /\ UNCHANGED <<hdVars, docVars, rqVars, stVars, dirVars, envVars, crVars>>

\* Tunnel.loop: close(t.ServerStatus); return.
LoopCloseServerStatus ==
    /\ loopPc = "close"
    /\ srvCloses' = srvCloses + 1
    /\ loopPc' = loopAfterClose
    /\ UNCHANGED <<supRev, ssPc, hbPc, ssStatus, connected, lastChange, srvSends,
                   srvReceived, terminal, pollFailed, pingErr, events>>
    /\ UNCHANGED <<hdVars, docVars, rqVars, stVars, dirVars, envVars, crVars>>

\* Tunnel.loop, case <-heartbeatTick: t.sendHeartBeat with the snapshot.
LoopHeartbeatTick ==
    /\ loopPc = "select"
    /\ Len(events) + 1 <= MaxEvents
    /\ events' = Append(events,
           Posted("postTick", heartBeatRequest(connected, Since(lastChange))))
    /\ \E failed \in BOOLEAN : pingErr' = failed
    /\ UNCHANGED <<supRev, ssPc, hbPc, loopPc, ssStatus, connected, lastChange,
                   srvSends, srvCloses, srvReceived, terminal, pollFailed>>
    /\ UNCHANGED <<hdVars, docVars, rqVars, stVars, dirVars, envVars, crVars>>

\* The clock, while the loop is supervised.
SupTick == Tick /\ UNCHANGED <<hdVars, docVars, rqVars, stVars, dirVars, crVars, supVars>>

SupNext ==
    \/ Create \/ HeartbeatStart \/ ReceiveClientStatus \/ PingUpdate \/ PingTick
    \/ StatusTick \/ ReceiveServerStatus \/ CloseServerStatus
    \/ CreateRest \/ LoopReceiveClientStatus \/ LoopStatusTick
    \/ LoopReceiveServerStatus \/ LoopCloseServerStatus \/ LoopHeartbeatTick
    \/ SupTick

(***************************************************************************)
(* Client.Status                                                           *)
(***************************************************************************)
StIdle ==
    /\ stPc = "idle"
    /\ stRev = "none"
    /\ stRecord = NoRemote
    /\ stFailed = FALSE
    /\ stStatus = ""
    /\ stErr = FALSE

\* A caller is about to ask for the status of a tunnel: the record the
\* service holds, and whether the GET will fail.
StInputs ==
    /\ stPc = "call"
    /\ stRev = "none"
    /\ stRecord \in serverStatus
    /\ stFailed \in BOOLEAN
    /\ stStatus = ""
    /\ stErr = FALSE

\* Client.Status of part_001: the GET by Client.status; its error is returned
\* with the zero status, its record goes through the user_shutdown override.
ClientStatusCall ==
    /\ stPc = "call"
    /\ stPc' = "returned"
    /\ stRev' = "part_001"
    /\ stErr' = stFailed
    /\ stStatus' = IF stFailed THEN "" ELSE Status(stRecord)
    /\ UNCHANGED <<stRecord, stFailed>>
    /\ UNCHANGED <<dirVars, envVars, crVars, supVars, rqVars, docVars, hdVars>>

\* Client.Status of src/rest.go: the GET into a struct of its own, and the
\* same override.
ClientStatusCallRest ==
    /\ stPc = "call"
    /\ stPc' = "returned"
    /\ stRev' = "rest.go"
    /\ stErr' = stFailed
    /\ stStatus' = IF stFailed THEN "" ELSE Status(stRecord)
    /\ UNCHANGED <<stRecord, stFailed>>
    /\ UNCHANGED <<dirVars, envVars, crVars, supVars, rqVars, docVars, hdVars>>

StNext == ClientStatusCall \/ ClientStatusCallRest

(***************************************************************************)
(* Transport envelope: executeRequest and the calls made through it        *)
(***************************************************************************)
\* Strings built by fmt.Sprintf and fmt.Errorf are sequences of pieces: the
\* literal parts of the format and the values of its verbs, in order.
NilError == <<>>

\* Client.BaseURL and Client.Username of the test clients.
BaseURL == "http://127.0.0.1"
Username == "username"

\* fmt.Sprintf("%s/%s/tunnels", c.BaseURL, c.Username)
TunnelsUrl == <<BaseURL, "/", Username, "/tunnels">>
\* fmt.Sprintf("%s/%s/tunnels/%s", c.BaseURL, c.Username, id)
TunnelUrl(id) == <<BaseURL, "/", Username, "/tunnels/", id>>
\* fmt.Sprintf("%s/%s/tunnels/%s/connected", c.BaseURL, c.Username, id)
ConnectedUrl(id) == TunnelUrl(id) \o <<"/connected">>
\* The id a tunnel URL names.
UrlId(url) == IF Len(url) >= 5 THEN url[5] ELSE ""

\* Message texts a server puts in a response that is not a success.
Messages == {"Too many active org tunnels: N+1 >= N", "Not available"}

\* resp.StatusCode of the responses the model draws, and resp.Status.
StatusCodes == {200, 201, 204, 400, 404, 504}
StatusLine(code) ==
    CASE code = 200 -> "200 OK"
      [] code = 201 -> "201 Created"
      [] code = 204 -> "204 No Content"
      [] code = 400 -> "400 Bad Request"
      [] code = 404 -> "404 Not Found"
      [] OTHER -> "504 Gateway Timeout"

\* The fields of a JSON document that the decode targets of this client
\* read; NoDoc is the zero value of a target.
NoDoc == [jobs_running |-> 0, status |-> "", user_shutdown |-> "null"]
Docs == [jobs_running : 0..MaxJobs, status : {"running", "shutdown"},
         user_shutdown : {"null", "true"}]

\* Response bodies: a JSON document, a JSON document {"error": M}, a text
\* that is no JSON, and the empty body.
Bodies ==
    [kind : {"doc"}, msg : {""}, doc : Docs]
        \cup [kind : {"errordoc", "text"}, msg : Messages, doc : {NoDoc}]
        \cup [kind : {"empty"}, msg : {""}, doc : {NoDoc}]

\* The bytes of a body, as buf.ReadFrom(resp.Body) and buf.String() give them.
BodyText(body) ==
    CASE body.kind = "errordoc" -> <<"{\"error\": \"", body.msg, "\"}">>
      [] body.kind = "text" -> <<body.msg>>
      [] body.kind = "doc" -> <<"{\"jobs_running\": ..., \"status\": ...}">>
      [] OTHER -> <<>>

\* What the HTTP round trip gives: a transport failure, or a response.
NoServer == [transport |-> "none", code |-> 0, body |-> [kind |-> "empty", msg |-> "", doc |-> NoDoc]]
Servers ==
    [transport : {"refused"}, code : {0}, body : {NoServer.body}]
        \cup [transport : {"ok"}, code : StatusCodes, body : Bodies]

\* Outcome of executeRequest: the error, the target after the call, the
\* number of Close calls on the response body, whether a response was got,
\* the number of round trips made, and the functions that encoded the
\* request document and decoded the response.
NoOutcome ==
    [err |-> NilError, doc |-> NoDoc, closes |-> 0, response |-> FALSE,
     sent |-> 0, encoder |-> "none", decoder |-> "none"]

\* Client.EncodeJSON and Client.DecodeJSON: nil (the defaults run), or the
\* verbose pair of sauceproxy_ctl.
Codecs == {"default", "verbose"}

\* decodeJSON: json.NewDecoder(reader).Decode(v), then reader.Close().
\* Fields the document does not have keep the zero value of the target.
decodeJSON(body) ==
    IF body.kind \in {"doc", "errordoc"}
    THEN [err |-> NilError, doc |-> body.doc, closes |-> 1]
    ELSE [err |-> <<"couldn't decode JSON document: ",
                    IF body.kind = "empty" THEN "EOF" ELSE "invalid character">>,
          doc |-> NoDoc, closes |-> 1]

\* verboseDecodeJSON: io.Copy(&buf, reader), the text is logged,
\* json.NewDecoder(&buf).Decode(v), then reader.Close().
verboseDecodeJSON(body) ==
    LET buf == body IN
    IF buf.kind \in {"doc", "errordoc"}
    THEN [err |-> NilError, doc |-> buf.doc, closes |-> 1]
    ELSE [err |-> <<"couldn't decode JSON document: ",
                    IF buf.kind = "empty" THEN "EOF" ELSE "invalid character">>,
          doc |-> NoDoc, closes |-> 1]

\* Client.decode: c.DecodeJSON if it is set, decodeJSON if not; `by` is the
\* function that ran.
decode(codec, body) ==
    IF codec = "verbose"
    THEN [out |-> verboseDecodeJSON(body), by |-> "verbose"]
    ELSE [out |-> decodeJSON(body), by |-> "default"]

\* Client.encode: c.EncodeJSON if it is set, encodeJSON if not; the value
\* is the function that ran.
encode(codec) == IF codec = "verbose" THEN "verbose" ELSE "default"

\* A transport that sends a request again when it failed.
roundTripsRetrying(srv) == IF srv.transport # "ok" \/ srv.code # 200 THEN 2 ELSE 1

\* http.DefaultClient.Do(req) or c.ExecuteRequest(req): called once, in no
\* loop.
roundTrips(srv) == 1

\* A status test that lets every response through.
statusFailsNever(code) == FALSE

\* resp.StatusCode != http.StatusOK
statusFails(code) == code # 200

\* The part of executeRequest that runs before a response exists: the
\* encoding of the request document, http.NewRequest, and the round trip.
beforeResponse(url, build, srv) ==
    IF build = "encode"
    THEN <<"couldn't encode JSON document: ", "unsupported type">>
    ELSE IF build = "newrequest"
    THEN <<"parse ">> \o url \o <<": ", "invalid URL">>
    ELSE IF srv.transport # "ok"
    THEN <<"couldn't connect to ">> \o url \o <<": ", "connection refused">>
    ELSE NilError

\* Client.executeRequest of part_001: `defer resp.Body.Close()` runs on
\* every return that follows the response.
executeRequest(url, hasBody, hasTarget, build, codec, srv) ==
    LET early == beforeResponse(url, build, srv)
        enc == IF hasBody THEN encode(codec) ELSE "none"
        n == IF build = "ok" THEN roundTrips(srv) ELSE 0 IN
    IF early # NilError
    THEN [err |-> early, doc |-> NoDoc, closes |-> 0, response |-> FALSE,
          sent |-> n, encoder |-> enc, decoder |-> "none"]
    ELSE IF statusFails(srv.code)
    THEN [err |-> <<"error querying from ">> \o url \o <<", error was: ">>
                      \o BodyText(srv.body)
                      \o <<". HTTP status: ", StatusLine(srv.code)>>,
          doc |-> NoDoc, closes |-> 1, response |-> TRUE,
          sent |-> n, encoder |-> enc, decoder |-> "none"]
    ELSE IF hasTarget
    THEN LET d == decode(codec, srv.body) IN
         [err |-> d.out.err, doc |-> d.out.doc, closes |-> d.out.closes + 1,
          response |-> TRUE, sent |-> n, encoder |-> enc, decoder |-> d.by]
    ELSE [err |-> NilError, doc |-> NoDoc, closes |-> 1, response |-> TRUE,
          sent |-> n, encoder |-> enc, decoder |-> "none"]

\* Client.executeRequest of src/rest.go: the body is closed on the status
\* error and by decodeJSON, and the error has the URL and the status.
executeRequestRest(url, hasBody, hasTarget, build, codec, srv) ==
    LET early == beforeResponse(url, build, srv)
        enc == IF hasBody THEN encode(codec) ELSE "none"
        n == IF build = "ok" THEN roundTrips(srv) ELSE 0 IN
    IF early # NilError
    THEN [err |-> early, doc |-> NoDoc, closes |-> 0, response |-> FALSE,
          sent |-> n, encoder |-> enc, decoder |-> "none"]
    ELSE IF statusFails(srv.code)
    THEN [err |-> <<"error querying from ">> \o url
                      \o <<". HTTP status: ", StatusLine(srv.code)>>,
          doc |-> NoDoc, closes |-> 1, response |-> TRUE,
          sent |-> n, encoder |-> enc, decoder |-> "none"]
    ELSE IF hasTarget
    THEN LET d == decode(codec, srv.body) IN
         [err |-> d.out.err, doc |-> d.out.doc, closes |-> d.out.closes,
          response |-> TRUE, sent |-> n, encoder |-> enc, decoder |-> d.by]
    ELSE [err |-> NilError, doc |-> NoDoc, closes |-> 0, response |-> TRUE,
          sent |-> n, encoder |-> enc, decoder |-> "none"]

\* Client.executeRequest of the package rest of part_000 and the decoding
\* its callers do: the request document goes through encodeJSON, the body
\* of the response through c.decodeJSON when the caller has a target, and
\* a caller without target drops the body unclosed.
executeRequestPart000(url, hasBody, hasTarget, build, codec, srv) ==
    LET early == beforeResponse(url, build, srv)
        enc == IF hasBody THEN "default" ELSE "none"
        n == IF build = "ok" THEN roundTrips(srv) ELSE 0 IN
    IF early # NilError
    THEN [err |-> early, doc |-> NoDoc, closes |-> 0, response |-> FALSE,
          sent |-> n, encoder |-> enc, decoder |-> "none"]
    ELSE IF statusFails(srv.code)
    THEN [err |-> <<"error querying from ">> \o url
                      \o <<". HTTP status: ", StatusLine(srv.code)>>,
          doc |-> NoDoc, closes |-> 1, response |-> TRUE,
          sent |-> n, encoder |-> enc, decoder |-> "none"]
    ELSE IF hasTarget
    THEN LET d == decode(codec, srv.body) IN
         [err |-> d.out.err, doc |-> d.out.doc, closes |-> d.out.closes,
          response |-> TRUE, sent |-> n, encoder |-> enc, decoder |-> d.by]
    ELSE [err |-> NilError, doc |-> NoDoc, closes |-> 0, response |-> TRUE,
          sent |-> n, encoder |-> enc, decoder |-> "none"]

\* What a call returns to its caller: error, jobs count, status string.
NoReturn == [err |-> NilError, jobs |-> 0, status |-> ""]

\* shutdown that takes jobs still running for a failure.
shutdownReturnFailsOnJobs(out) ==
    [err |-> IF out.err = NilError /\ out.doc.jobs_running # 0
             THEN <<"jobs still running">> ELSE out.err,
     jobs |-> out.doc.jobs_running, status |-> ""]

\* Client.shutdown: return jobsRunning, err
shutdownReturn(out) == [err |-> out.err, jobs |-> out.doc.jobs_running, status |-> ""]

\* Ping that drops the error of the request, as the heartbeat loop does.
pingReturnSwallows(out) == NoReturn

\* Client.Ping: return c.executeRequest("POST", url, &h, nil)
pingReturn(out) == [err |-> out.err, jobs |-> 0, status |-> ""]

\* Client.Status: the error of Client.status is returned with the zero
\* status, the record goes through the user_shutdown override.
statusReturn(out) ==
    IF out.err # NilError
    THEN [err |-> out.err, jobs |-> 0, status |-> ""]
    ELSE [err |-> NilError, jobs |-> 0,
          status |-> Status([Status |-> out.doc.status,
                             UserShutdown |-> out.doc.user_shutdown, Host |-> ""])]

RqIdle ==
    /\ rqPc = "idle"
    /\ rqOp = "none"
    /\ rqRev = "none"
    /\ rqId = ""
    /\ rqUrl = <<>>
    /\ rqHasTarget = FALSE
    /\ rqBuild = "ok"
    /\ rqServer = NoServer
    /\ rqOut = NoOutcome
    /\ rqRet = NoReturn
    /\ rqMethod = ""
    /\ rqCodec = "default"

\* A caller is about to make a call: the tunnel id it names, whether the
\* request can be built, the JSON functions its client is configured with,
\* and, for a bare executeRequest, the URL and whether a decode target is
\* given.
RqInputs ==
    /\ rqPc = "call"
    /\ rqOp = "none"
    /\ rqRev = "none"
    /\ rqId \in TunnelIds
    /\ rqUrl \in {TunnelsUrl, TunnelUrl(rqId)}
    /\ rqHasTarget \in BOOLEAN
    /\ rqBuild \in {"ok", "encode", "newrequest"}
    /\ rqServer = NoServer
    /\ rqOut = NoOutcome
    /\ rqRet = NoReturn
    /\ rqMethod = ""
    /\ rqCodec \in Codecs

\* One call through the envelope: the request goes to `url` with `method`,
\* the service answers, and `ret` makes the caller's result of the outcome.
RqCall(op, rev, method, url, hasTarget, srv, out, ret) ==
    /\ rqPc = "call"
    /\ rqPc' = "returned"
    /\ rqOp' = op
    /\ rqRev' = rev
    /\ rqMethod' = method
    /\ rqUrl' = url
    /\ rqHasTarget' = hasTarget
    /\ rqServer' = srv
    /\ rqOut' = out
    /\ rqRet' = ret
    /\ UNCHANGED <<rqId, rqBuild, rqCodec>>
    /\ UNCHANGED <<dirVars, envVars, crVars, supVars, stVars, docVars, hdVars>>

\* The error of the request is all the caller gets.
errorReturn(out) == [err |-> out.err, jobs |-> 0, status |-> ""]

\* A call of Client.executeRequest of part_001 with any URL and target; a
\* request document that cannot be encoded is a request document.
ExecuteRequest ==
    \E srv \in Servers, method \in {"GET", "POST", "DELETE"} :
        LET out == executeRequest(rqUrl, rqBuild = "encode", rqHasTarget, rqBuild,
                                  rqCodec, srv) IN
        RqCall("executeRequest", "part_001", method, rqUrl, rqHasTarget, srv, out,
               errorReturn(out))

\* A call of Client.executeRequest of src/rest.go with any URL and target.
ExecuteRequestRest ==
    \E srv \in Servers, method \in {"GET", "POST", "DELETE"} :
        LET out == executeRequestRest(rqUrl, rqBuild = "encode", rqHasTarget, rqBuild,
                                      rqCodec, srv) IN
        RqCall("executeRequest", "rest.go", method, rqUrl, rqHasTarget, srv, out,
               errorReturn(out))

\* Client.Shutdown(id): DELETE of the tunnel URL, decoded into jobs_running.
ClientShutdown ==
    /\ rqBuild # "encode"
    /\ \E srv \in Servers :
          LET url == TunnelUrl(rqId)
              out == executeRequest(url, FALSE, TRUE, rqBuild, rqCodec, srv) IN
          RqCall("Shutdown", "part_001", "DELETE", url, TRUE, srv, out,
                 shutdownReturn(out))

\* Tunnel.Shutdown: shutdown with ?wait_for_jobs=0 and t.Id.
TunnelShutdown ==
    /\ rqBuild # "encode"
    /\ \E srv \in Servers :
          LET url == TunnelUrl(rqId) \o <<"?wait_for_jobs=0">>
              out == executeRequest(url, FALSE, TRUE, rqBuild, rqCodec, srv) IN
          RqCall("Tunnel.Shutdown", "part_001", "DELETE", url, TRUE, srv, out,
                 shutdownReturn(out))

\* Tunnel.ShutdownWaitForJobs: shutdown with ?wait_for_jobs=1 and t.Id.
TunnelShutdownWaitForJobs ==
    /\ rqBuild # "encode"
    /\ \E srv \in Servers :
          LET url == TunnelUrl(rqId) \o <<"?wait_for_jobs=1">>
              out == executeRequest(url, FALSE, TRUE, rqBuild, rqCodec, srv) IN
          RqCall("Tunnel.ShutdownWaitForJobs", "part_001", "DELETE", url, TRUE, srv, out,
                 shutdownReturn(out))

\* Client.Ping(id, connected, duration): POST of the heartbeat, no target.
ClientPing ==
    \E srv \in Servers :
        LET url == ConnectedUrl(rqId)
            out == executeRequest(url, TRUE, FALSE, rqBuild, rqCodec, srv) IN
        RqCall("Ping", "part_001", "POST", url, FALSE, srv, out, pingReturn(out))

\* Client.Status(id): GET of the tunnel URL by Client.status.
ClientStatusRequest ==
    /\ rqBuild # "encode"
    /\ \E srv \in Servers :
          LET url == TunnelUrl(rqId)
              out == executeRequest(url, FALSE, TRUE, rqBuild, rqCodec, srv) IN
          RqCall("Status", "part_001", "GET", url, TRUE, srv, out, statusReturn(out))

\* Client.List and Client.Find: one call of listTunnels, a GET of
\* .../tunnels?full=1 decoded into the states; what follows is a loop over
\* the states.
ClientList ==
    /\ rqBuild # "encode"
    /\ \E srv \in Servers, op \in {"List", "Find"} :
          LET url == TunnelsUrl \o <<"?full=1">>
              out == executeRequest(url, FALSE, TRUE, rqBuild, rqCodec, srv) IN
          RqCall(op, "part_001", "GET", url, TRUE, srv, out, errorReturn(out))

\* Client.CreateWithTimeout up to the return of its POST of the document.
CreatePost ==
    \E srv \in Servers :
        LET out == executeRequest(TunnelsUrl, TRUE, TRUE, rqBuild, rqCodec, srv) IN
        RqCall("CreateWithTimeout", "part_001", "POST", TunnelsUrl, TRUE, srv, out,
               errorReturn(out))

\* Tunnel.Shutdown of the package rest of part_000: shutdown with the bare
\* tunnel URL and t.Id; the body of the response is dropped.
TunnelShutdownPart000 ==
    /\ rqBuild # "encode"
    /\ \E srv \in Servers :
          LET url == TunnelUrl(rqId)
              out == executeRequestPart000(url, FALSE, FALSE, rqBuild, rqCodec, srv) IN
          RqCall("Tunnel.Shutdown", "part_000", "DELETE", url, FALSE, srv, out,
                 errorReturn(out))

\* Tunnel.ShutdownWaitForJobs of part_000: shutdown with ?wait_for_jobs=1.
TunnelShutdownWaitForJobsPart000 ==
    /\ rqBuild # "encode"
    /\ \E srv \in Servers :
          LET url == TunnelUrl(rqId) \o <<"?wait_for_jobs=1">>
              out == executeRequestPart000(url, FALSE, FALSE, rqBuild, rqCodec, srv) IN
          RqCall("Tunnel.ShutdownWaitForJobs", "part_000", "DELETE", url, FALSE, srv, out,
                 errorReturn(out))

\* Tunnel.sendHeartBeat of part_000: POST of the heartbeat, no target.
SendHeartBeatPart000 ==
    \E srv \in Servers :
        LET url == ConnectedUrl(rqId)
            out == executeRequestPart000(url, TRUE, FALSE, rqBuild, rqCodec, srv) IN
        RqCall("sendHeartBeat", "part_000", "POST", url, FALSE, srv, out,
               errorReturn(out))

\* Tunnel.status of part_000: GET of the tunnel URL, decoded by
\* c.decodeJSON.
TunnelStatusPart000 ==
    /\ rqBuild # "encode"
    /\ \E srv \in Servers :
          LET url == TunnelUrl(rqId)
              out == executeRequestPart000(url, FALSE, TRUE, rqBuild, rqCodec, srv) IN
          RqCall("Tunnel.status", "part_000", "GET", url, TRUE, srv, out,
                 errorReturn(out))

RqNext ==
    \/ ExecuteRequest \/ ExecuteRequestRest
    \/ ClientShutdown \/ TunnelShutdown \/ TunnelShutdownWaitForJobs
    \/ ClientPing \/ ClientStatusRequest
    \/ ClientList \/ CreatePost
    \/ TunnelShutdownPart000 \/ TunnelShutdownWaitForJobsPart000
    \/ SendHeartBeatPart000 \/ TunnelStatusPart000

(***************************************************************************)
(* The document POSTed by a create                                         *)
(***************************************************************************)
\* const DefaultDomain
DefaultDomain == "sauce-connect.proxy"

\* A []string: nil, or a list that may be empty.
NilSlice == [isNil |-> TRUE, elems |-> <<>>]
Slices == {NilSlice} \cup [isNil : {FALSE}, elems : DomainLists]

\* Request: the fields of it that the model follows into the document.
Requests ==
    [TunnelIdentifier : QueryNames, DomainNames : Slices,
     SharedTunnel : BOOLEAN, NoProxyCaching : BOOLEAN]
NoRequest ==
    [TunnelIdentifier |-> "", DomainNames |-> NilSlice,
     SharedTunnel |-> FALSE, NoProxyCaching |-> FALSE]

\* jsonRequest before anything is copied into it.
NoDocument ==
    [tunnel_identifier |-> "", domain_names |-> NilSlice,
     shared_tunnel |-> FALSE, no_proxy_caching |-> FALSE, use_kgp |-> FALSE]

\* createWithTimeout of src/rest.go: the domain names of the document.
domainNamesRest(r) ==
    IF r.DomainNames.isNil
    THEN IF r.TunnelIdentifier = ""
         THEN [isNil |-> FALSE, elems |-> <<DefaultDomain>>]
         ELSE NilSlice
    ELSE r.DomainNames

\* CreateWithTimeout of part_001: DomainNames: r.DomainNames
domainNames(r) == r.DomainNames

\* var doc = jsonRequest{...}, with the domain names d.
jsonRequest(r, d) ==
    [tunnel_identifier |-> r.TunnelIdentifier, domain_names |-> d,
     shared_tunnel |-> r.SharedTunnel, no_proxy_caching |-> r.NoProxyCaching,
     use_kgp |-> TRUE]

DocIdle ==
    /\ docPc = "idle"
    /\ docRev = "none"
    /\ docRequest = NoRequest
    /\ docPosted = NoDocument

\* A caller is about to create a tunnel with some request.
DocInputs ==
    /\ docPc = "call"
    /\ docRev = "none"
    /\ docRequest \in Requests
    /\ docPosted = NoDocument

\* Client.CreateWithTimeout of part_001 up to the POST of the document.
PostDocument ==
    /\ docPc = "call"
    /\ docPc' = "posted"
    /\ docRev' = "part_001"
    /\ docPosted' = jsonRequest(docRequest, domainNames(docRequest))
    /\ UNCHANGED docRequest
    /\ UNCHANGED <<dirVars, envVars, crVars, supVars, stVars, rqVars, hdVars>>

\* Client.createWithTimeout of src/rest.go up to the POST of the document.
PostDocumentRest ==
    /\ docPc = "call"
    /\ docPc' = "posted"
    /\ docRev' = "rest.go"
    /\ docPosted' = jsonRequest(docRequest, domainNamesRest(docRequest))
    /\ UNCHANGED docRequest
    /\ UNCHANGED <<dirVars, envVars, crVars, supVars, stVars, rqVars, hdVars>>

DocNext == PostDocument \/ PostDocumentRest

(***************************************************************************)
(* The handle: its fields, the goroutines that use it, their requests      *)
(***************************************************************************)
\* The goroutines of callers that hold the handle, and those Create starts.
Callers == {"caller1", "caller2"}
LoopsOf(rev) ==
    IF rev = "part_001" THEN {"heartbeatLoop", "serverStatusLoop"}
    ELSE IF rev = "rest.go" THEN {"loop"}
    ELSE {}
Goroutines == Callers \cup {"heartbeatLoop", "serverStatusLoop", "loop"}

\* The methods of Tunnel a caller calls.
TunnelMethods == {"Status", "Shutdown", "ShutdownWaitForJobs"}

\* Fields of the handle a function reads while it runs.
fieldReads(op) ==
    CASE op \in TunnelMethods -> {"Client", "Id"}
      [] op = "heartbeatLoop" -> {"ClientStatus", "Client", "Id"}
      [] op = "serverStatusLoop" -> {"Client", "Id", "ServerStatus"}
      [] op = "loop" -> {"ClientStatus", "Client", "Id", "ServerStatus"}
      [] OTHER -> {}

\* Methods of which Status keeps the host of its answer in the handle.
fieldWritesCachingHost(op) == IF op = "Status" THEN {"Host"} ELSE {}

\* Fields of the handle a method or a loop assigns: none of them has an
\* assignment to a field of t.
fieldWrites(op) == {}

\* A request that names the tunnel by the host stored in the handle.
requestIdFromHost(t) == t.Host

\* The id a method or loop puts into the URL of its request: t.Id.
requestId(t) == t.Id

NoBusy == [g \in Goroutines |-> "none"]

\* Methods of which the shutdowns end the loops of the handle.
stoppedByShutdown(op) ==
    IF op \in {"Shutdown", "ShutdownWaitForJobs"}
    THEN {"heartbeatLoop", "serverStatusLoop", "loop"} ELSE {}

\* The loops a method or a pass of a loop ends when it starts: Status and
\* the shutdowns are one request each, and no method or loop has a way to
\* tell a loop to return.
stoppedBy(op) == {}

\* What a status poll of a loop is answered with: the request fails, or the
\* status of the answer is "running" or another one.
LoopPolls == {"failed", "running", "shutdown"}

\* serverStatusLoop and Tunnel.loop after t.Status(): `else if status !=
\* "running"` sends, closes and returns.
loopReturns(g, poll) == g \in {"serverStatusLoop", "loop"} /\ poll = "shutdown"

HdIdle ==
    /\ hdPc = "idle"
    /\ hdRev = "none"
    /\ hdResponseId = ""
    /\ hdTunnel = ZeroTunnel
    /\ hdBusy = NoBusy
    /\ hdRequests = {}
    /\ hdWritten = {}
    /\ hdOver = {}
    /\ hdPoll = "none"

\* CreateWithTimeout (createWithTimeout in src/rest.go): the POST succeeded,
\* tunnel.Client = c and tunnel.Id = response.Id.
HandlePost ==
    /\ hdPc = "idle"
    /\ hdPc' = "posted"
    /\ \E rev \in {"part_001", "rest.go"} : hdRev' = rev
    /\ \E id \in TunnelIds :
          /\ hdResponseId' = id
          /\ hdTunnel' = [hdTunnel EXCEPT !.Id = id]
    /\ UNCHANGED <<hdBusy, hdRequests, hdWritten, hdOver, hdPoll>>
    /\ UNCHANGED <<dirVars, envVars, crVars, supVars, stVars, rqVars, docVars>>

\* Tunnel.wait: one status poll, t.Client.status(t.Id).
HandleWaitPoll ==
    /\ hdPc = "posted"
    /\ hdRequests' = hdRequests \cup {[op |-> "wait", id |-> requestId(hdTunnel)]}
    /\ UNCHANGED <<hdPc, hdRev, hdResponseId, hdTunnel, hdBusy, hdWritten, hdOver, hdPoll>>
    /\ UNCHANGED <<dirVars, envVars, crVars, supVars, stVars, rqVars, docVars>>

\* CreateWithTimeout after wait returned host and err, and its return.
HandleReturn ==
    /\ hdPc = "posted"
    /\ \E o \in {[host |-> "maki1", err |-> NoError], [host |-> "", err |-> OtherError("poll")]} :
          /\ hdTunnel' = createReturn(hdTunnel, IF hdRev = "part_001" THEN o.host ELSE "", o.err)
          /\ hdPc' = IF o.err = NoError THEN "returned" ELSE "failed"
    /\ UNCHANGED <<hdRev, hdResponseId, hdBusy, hdRequests, hdWritten, hdOver, hdPoll>>
    /\ UNCHANGED <<dirVars, envVars, crVars, supVars, stVars, rqVars, docVars>>

\* Client.Create: the go statements that follow a create without error.
HandleStart ==
    /\ hdPc = "returned"
    /\ hdPc' = "started"
    /\ UNCHANGED <<hdRev, hdResponseId, hdTunnel, hdBusy, hdRequests, hdWritten, hdOver, hdPoll>>
    /\ UNCHANGED <<dirVars, envVars, crVars, supVars, stVars, rqVars, docVars>>

\* Goroutine g starts to run `op` on the handle: it reads and writes the
\* fields of `op` until the call is over, and its request goes out.
Begin(g, op) ==
    /\ hdBusy[g] = "none"
    /\ hdBusy' = [hdBusy EXCEPT ![g] = op]
    /\ hdRequests' = hdRequests \cup {[op |-> op, id |-> requestId(hdTunnel)]}
    /\ hdWritten' = hdWritten \cup fieldWrites(op)
    /\ hdOver' = hdOver \cup stoppedBy(op)
    /\ UNCHANGED <<hdPc, hdRev, hdResponseId, hdTunnel>>
    /\ UNCHANGED <<dirVars, envVars, crVars, supVars, stVars, rqVars, docVars>>

\* A caller that holds the handle calls Status, Shutdown or
\* ShutdownWaitForJobs: t.Client.Status(t.Id), t.Client.shutdown(..., t.Id).
MethodBegin ==
    /\ hdPc \in {"returned", "failed", "started"}
    /\ \E g \in Callers, op \in TunnelMethods : Begin(g, op)
    /\ UNCHANGED hdPoll

\* A pass of heartbeatLoop, of serverStatusLoop or of loop starts its
\* request: t.Client.Ping(t.Id, ...), or t.Status() and its answer.
LoopBegin ==
    /\ hdPc = "started"
    /\ \E g \in LoopsOf(hdRev) \ hdOver :
          /\ Begin(g, g)
          /\ IF g = "heartbeatLoop"
             THEN UNCHANGED hdPoll
             ELSE \E poll \in LoopPolls : hdPoll' = poll

\* The call of a caller, or the pass of a loop, is over; a loop whose
\* status poll said that the tunnel does not run returns.
End ==
    /\ \E g \in Goroutines :
          /\ hdBusy[g] # "none"
          /\ hdBusy' = [hdBusy EXCEPT ![g] = "none"]
          /\ hdOver' = IF loopReturns(g, hdPoll) THEN hdOver \cup {g} ELSE hdOver
    /\ UNCHANGED <<hdPc, hdRev, hdResponseId, hdTunnel, hdRequests, hdWritten, hdPoll>>
    /\ UNCHANGED <<dirVars, envVars, crVars, supVars, stVars, rqVars, docVars>>

HdNext ==
    \/ HandlePost \/ HandleWaitPoll \/ HandleReturn \/ HandleStart
    \/ MethodBegin \/ LoopBegin \/ End

(***************************************************************************)
(* Specifications                                                          *)
(***************************************************************************)
DirInit == DirInputs /\ EnvIdle /\ CrIdle /\ SupIdle /\ StIdle /\ RqIdle /\ DocIdle /\ HdIdle

SpecDirectory == DirInit /\ [][DirNext]_vars

CrInit == DirIdle /\ EnvIdle /\ CrInputs /\ SupIdle /\ StIdle /\ RqIdle /\ DocIdle /\ HdIdle

\* CreateWithTimeout and wait, and the end of the Create that called them.
CreateNext == CrNext \/ Create \/ CreateRest

SpecCreate == CrInit /\ [][CreateNext]_vars

\* The steps of CreateWithTimeout and of wait, in the three revisions.
WaitSteps ==
    \/ CreateWithTimeout \/ WaitStart \/ WaitPoll \/ WaitCheck \/ WaitWake
    \/ createWithTimeoutRest \/ WaitStartRest \/ WaitTestRest \/ WaitPollRest
    \/ WaitWakeRest
    \/ createWithTimeouts \/ WaitStartAdmin \/ WaitTestAdmin \/ WaitPollAdmin
    \/ WaitWakeAdmin

\* The scheduling a create can rely on: its goroutine runs, each of its
\* requests returns, and time passes.
CreateFairness ==
    /\ WF_vars(WaitSteps)
    /\ WF_vars(CrTick)

FairCreateSpec == SpecCreate /\ CreateFairness

\* The service serves a running tunnel since the start of the run.
EnvRunning ==
    /\ now = 0
    /\ remote = [Status |-> "running", UserShutdown |-> "null", Host |-> "maki1"]
    /\ firstRunning = 0
    /\ runningSince = 0

\* The CreateWithTimeout of Client.Create has just returned a tunnel whose
\* first status poll said "running": nothing supervises the tunnel yet.
CrReturned ==
    /\ crPc = "returned"
    /\ crRev \in {"part_001", "rest.go"}
    /\ crTimeout = 0
    /\ crEnd = 0
    /\ crNow = 0
    /\ crWake = 0
    /\ crResponse = [Id |-> "49958ce5", Host |-> ""]
    /\ crTunnel = [Id |-> "49958ce5",
                   Host |-> IF crRev = "part_001" THEN "maki1" ELSE "",
                   ServerStatus |-> "made", ClientStatus |-> "made"]
    /\ crErr = NoError
    /\ crPolls = 1
    /\ crFailedPoll = 0
    /\ crRunningPoll = remote
    /\ crLastPollAt = 0

Init == DirIdle /\ EnvRunning /\ CrReturned /\ SupIdle /\ StIdle /\ RqIdle /\ DocIdle /\ HdIdle

Next == SupNext

Spec == Init /\ [][Next]_vars

\* The scheduling the supervision loop can rely on: the goroutines started by
\* Create run, the status ticker fires and its poll is answered with a status
\* that is not "running", and the caller receives from ServerStatus.  The
\* caller is free never to send on ClientStatus and the heartbeat ticker is
\* left free.
Fairness ==
    /\ WF_vars(Create)
    /\ WF_vars(CreateRest)
    /\ WF_vars(StatusTick /\ ssPc' = "send")
    /\ WF_vars(ReceiveServerStatus)
    /\ WF_vars(CloseServerStatus)
    /\ WF_vars(LoopStatusTick /\ loopPc' = "send")
    /\ WF_vars(LoopReceiveServerStatus)
    /\ WF_vars(LoopCloseServerStatus)

FairSpec == Spec /\ Fairness

\* The scheduling a caller that sends on ClientStatus can rely on: the
\* heartbeat goroutine runs, and the heartbeat request it makes after an
\* update returns.  Nothing is promised about the server-status activity or
\* about a reader of ServerStatus.
HeartbeatFairness ==
    /\ WF_vars(HeartbeatStart)
    /\ WF_vars(PingUpdate)

HeartbeatFairSpec == Spec /\ HeartbeatFairness

StInit == DirIdle /\ EnvIdle /\ CrIdle /\ SupIdle /\ StInputs /\ RqIdle /\ DocIdle /\ HdIdle

SpecStatus == StInit /\ [][StNext]_vars

RqInit == DirIdle /\ EnvIdle /\ CrIdle /\ SupIdle /\ StIdle /\ RqInputs /\ DocIdle /\ HdIdle

\* The calls a caller makes through the transport envelope.
SpecRequest == RqInit /\ [][RqNext]_vars

DocInit == DirIdle /\ EnvIdle /\ CrIdle /\ SupIdle /\ StIdle /\ RqIdle /\ DocInputs /\ HdIdle

\* The creation document of every request, in both revisions.
SpecDocument == DocInit /\ [][DocNext]_vars

HdInit == DirIdle /\ EnvIdle /\ CrIdle /\ SupIdle /\ StIdle /\ RqIdle /\ DocIdle /\ HdIdle

\* One handle from its creation on, the callers and the loops that use it.
SpecHandle == HdInit /\ [][HdNext]_vars


(***************************************************************************)
(* Claims about the tunnel directory                                       *)
(***************************************************************************)
\* The listing entries that share at least one domain with the query.
SharingEntries ==
    {k \in 1..Len(dirList) :
        Range(dirList[k].DomainNames) \cap Range(dirDomains) # {}}

\* The listing entries whose tunnel name is the queried name.
NamedEntries ==
    {k \in 1..Len(dirList) : dirList[k].TunnelIdentifier = dirName}

NoDuplicates(s) == \A i, j \in 1..Len(s) : s[i] = s[j] => i = j

\* C6: Find with an empty name, when the listing succeeds, returns no error
\* and exactly the ids of the entries that share a domain with the given
\* domains, each once; the result is empty when no entry shares one.
C6_FindUnnamedMatchesByDomain ==
    (dirCall \in {"Find", "FindRest"} /\ dirName = "" /\ ~dirListErr) =>
        /\ ~dirErr
        /\ Range(dirMatches) = {dirList[k].Id : k \in SharingEntries}
        /\ Len(dirMatches) = Cardinality(SharingEntries)
        /\ (SharingEntries = {} => dirMatches = <<>>)

\* C6 witness: an unnamed Find over two entries returned one and left the
\* other out.
C6_Witness ==
    /\ dirCall = "Find"
    /\ dirName = ""
    /\ ~dirErr
    /\ Len(dirList) = 2
    /\ Len(dirMatches) = 1

\* C7: Find with a non-empty name returns exactly the ids of the entries
\* whose tunnel name equals it, whatever the domains are.
C7_FindNamedMatchesByNameOnly ==
    (dirCall \in {"Find", "FindRest"} /\ dirName # "" /\ ~dirListErr) =>
        /\ Range(dirMatches) = {dirList[k].Id : k \in NamedEntries}
        /\ Len(dirMatches) = Cardinality(NamedEntries)

\* C8: the result of Find, and of the older Match, holds no id twice.
C8_NoDuplicateIds ==
    dirCall \in {"Find", "Match"} => NoDuplicates(dirMatches)

(***************************************************************************)
(* Claims about the creation protocol                                      *)
(***************************************************************************)
\* CreateWithTimeout (part_001) has returned and neither the POST nor a poll
\* failed.
CreateReturnedNoFailure ==
    /\ crPc = "returned"
    /\ crRev = "part_001"
    /\ crErr.kind \notin {"post", "poll"}

\* C3: when the status is "running" at no instant up to start+timeout,
\* whatever it is afterwards, and no request fails, CreateWithTimeout returns
\* the timeout error naming the assigned id and the timeout, and leaves both
\* channels nil.
C3_TimeoutWhenNotRunningByDeadline ==
    (CreateReturnedNoFailure /\ (firstRunning = NoTime \/ firstRunning > crEnd)) =>
        /\ crErr = TimeoutError(crResponse.Id, crTimeout)
        /\ crTunnel.ServerStatus = "nil"
        /\ crTunnel.ClientStatus = "nil"

\* C3, amended: when the status is "running" at no instant up to the last
\* status poll wait issues (the first poll is unconditional and a poll follows
\* every sleep begun no later than the deadline, so that poll can be later
\* than start+timeout) and no request fails, CreateWithTimeout returns the
\* timeout error naming the assigned id and the timeout, and leaves both
\* channels nil.
C3_TimeoutWhenNotRunningByLastPoll ==
    (CreateReturnedNoFailure /\ (firstRunning = NoTime \/ firstRunning > crLastPollAt)) =>
        /\ crErr = TimeoutError(crResponse.Id, crTimeout)
        /\ crTunnel.ServerStatus = "nil"
        /\ crTunnel.ClientStatus = "nil"

\* C3 witness: a create that timed out after two polls or more, of a tunnel
\* that came up after the last of them.
C3_Witness ==
    /\ CreateReturnedNoFailure
    /\ crPolls >= 2
    /\ firstRunning # NoTime
    /\ firstRunning > crLastPollAt
    /\ crErr = TimeoutError(crResponse.Id, crTimeout)
    /\ crTunnel.ServerStatus = "nil"

\* C4, for the wait of src/rest.go: when every request succeeds and the
\* status has been "running" since an instant before start+timeout, the
\* create does not end in the timeout error.
C4_SuccessWhenRunningByDeadline ==
    ( /\ crPc = "returned"
      /\ crRev = "rest.go"
      /\ crErr.kind \notin {"hostname", "rlimit", "post", "poll"}
      /\ runningSince # NoTime
      /\ runningSince < crEnd ) =>
        crErr = NoError

\* C5: a successful CreateWithTimeout returns the id of the creation response
\* and the host of the first status response that said "running".
C5_IdOfResponseHostOfRunningPoll ==
    (crPc = "returned" /\ crRev = "part_001" /\ crErr = NoError) =>
        /\ crTunnel.Id = crResponse.Id
        /\ crRunningPoll # NoRemote
        /\ crTunnel.Host = crRunningPoll.Host

\* C5 witness: a create that succeeded at its second poll or later, with a
\* host that is not the one of the creation response.
C5_Witness ==
    /\ crPc = "returned"
    /\ crRev = "part_001"
    /\ crErr = NoError
    /\ crPolls >= 2
    /\ crResponse.Host # ""
    /\ crTunnel.Host # crResponse.Host

(***************************************************************************)
(* Claims about the supervision loop                                       *)
(***************************************************************************)
\* The effective status of a status record as the specification defines it:
\* userShutdown first, the literal status string second.
EffectiveStatus(r) == IF r.UserShutdown = "true" THEN "user shutdown" ELSE r.Status

\* The server-status activity is over: it polls, sends and closes no more.
ServerStatusActivityOver ==
    /\ ssPc \in {"off", "done"}
    /\ loopPc \in {"off", "done"}

\* C1: the server-status activity sends at most one value on ServerStatus,
\* closes the channel at most once and only when the caller has received
\* that value, and is over once it has closed the channel.
C1_OneSendThenClose ==
    /\ srvSends <= 1
    /\ srvCloses <= 1
    /\ Len(srvReceived) <= srvSends
    /\ srvCloses > 0 => (Len(srvReceived) = 1 /\ ServerStatusActivityOver)

\* C1 witness: serverStatusLoop has delivered its value, closed the channel
\* and returned.
C1_Witness ==
    /\ supRev = "part_001"
    /\ ssPc = "done"
    /\ srvSends = 1
    /\ srvCloses = 1
    /\ Len(srvReceived) = 1

\* C2: the value sent on ServerStatus, and the one the caller receives, is the
\* effective status of the first successful poll whose record was not one of
\* a running tunnel.
C2_DeliversFirstNonRunningStatus ==
    /\ srvSends > 0 => (terminal # NoTerminal /\ ssStatus = EffectiveStatus(terminal))
    /\ \A i \in 1..Len(srvReceived) : srvReceived[i] = EffectiveStatus(terminal)

\* C2 witness: the caller has received "user shutdown" for a record whose
\* status string was "running".
C2_Witness ==
    /\ supRev = "part_001"
    /\ srvReceived = <<"user shutdown">>
    /\ terminal.Status = "running"

\* A heartbeat is about to be POSTed for the update received last.
PingPending == hbPc = "ping"

\* C9: every liveness update received is followed, before any other update
\* or heartbeat, by the heartbeat POSTed for it.
C9_EveryUpdateTriggersHeartbeat ==
    \A i \in 1..Len(events) :
        events[i].kind = "update" =>
            IF i = Len(events)
            THEN PingPending
            ELSE events[i + 1].kind = "postUpdate"

\* Position in `events` of the latest update before position i, 0 if none.
LastUpdateBefore(i) ==
    LET updates == {j \in 1..(i - 1) : events[j].kind = "update"}
    IN  IF updates = {} THEN 0 ELSE CHOOSE j \in updates : \A k \in updates : k <= j

\* n is the number of whole seconds in d ticks (of either sign).
IsWholeSeconds(n, d) ==
    IF d >= 0
    THEN n >= 0 /\ n * TicksPerSecond <= d /\ d < (n + 1) * TicksPerSecond
    ELSE n <= 0 /\ n * TicksPerSecond >= d /\ d > (n - 1) * TicksPerSecond

\* C10: every heartbeat POSTed after a liveness update carries the connected
\* flag of the latest update received before it, and the whole seconds
\* between the instant it is sent and that update's LastStatusChange.
C10_HeartbeatCarriesLatestUpdate ==
    \A i \in 1..Len(events) :
        (events[i].kind # "update" /\ LastUpdateBefore(i) # 0) =>
            LET u == events[LastUpdateBefore(i)]
            IN  /\ events[i].connected = u.connected
                /\ IsWholeSeconds(events[i].value, events[i].at - Unix(u.value))

\* C10 witness: heartbeatLoop received two updates that differ in both fields
\* and POSTed a heartbeat for each, the second a second or more after its
\* LastStatusChange.
C10_Witness ==
    /\ supRev = "part_001"
    /\ Len(events) = 4
    /\ events[1].kind = "update"
    /\ events[2].kind = "postUpdate"
    /\ events[3].kind = "update"
    /\ events[4].kind = "postUpdate"
    /\ events[1].connected # events[3].connected
    /\ events[1].value # events[3].value
    /\ events[4].value >= 1

\* No liveness update has been received yet.
NoUpdateYet == \A i \in 1..Len(events) : events[i].kind # "update"

\* C11: while no liveness update has been received, every heartbeat POSTed
\* reports connected = false, and the heartbeat activity, once started, is
\* not waiting for a first update: it is ahead of its select or at it.
C11_TicksBeforeFirstUpdate ==
    (supRev # "none" /\ NoUpdateYet) =>
        /\ \A i \in 1..Len(events) : events[i].connected = FALSE
        /\ loopPc # "first"

\* C12: as long as no poll has succeeded with a status that is not running,
\* whatever polls failed, nothing is sent on ServerStatus, the channel is not
\* closed and the activity is still at its tick; and the first such status
\* is sent whatever polls failed before it.
C12_FailedPollsAreDropped ==
    /\ (pollFailed /\ terminal = NoTerminal) =>
           /\ srvSends = 0
           /\ srvCloses = 0
           /\ srvReceived = <<>>
           /\ (ssPc = "tick" \/ loopPc = "select")
    /\ (pollFailed /\ terminal # NoTerminal) => srvSends = 1

\* C12 witness: serverStatusLoop delivered a status after a failed poll.
C12_Witness ==
    /\ supRev = "part_001"
    /\ pollFailed
    /\ Len(srvReceived) = 1
    /\ srvCloses = 1

\* The step POSTs a heartbeat, and the request fails.
FailedHeartbeatStep ==
    /\ Len(events') = Len(events) + 1
    /\ events'[Len(events')].kind # "update"
    /\ pingErr'

\* C13: a step whose heartbeat request fails leaves the liveness snapshot as
\* it was, leaves the heartbeat activity at its select, ready for the next
\* tick or update, and changes nothing of the server-status activity nor of
\* ServerStatus.
C13_FailedHeartbeatIsDropped ==
    [][FailedHeartbeatStep =>
          /\ connected' = connected
          /\ lastChange' = lastChange
          /\ IF supRev = "part_001" THEN hbPc' = "select" ELSE loopPc' = "select"
          /\ UNCHANGED <<ssPc, ssStatus, srvSends, srvCloses, srvReceived, terminal>>
      ]_vars

\* C13 witness: heartbeatLoop is back at its select after two heartbeats, the
\* second of which failed.
C13_Witness ==
    /\ supRev = "part_001"
    /\ hbPc = "select"
    /\ pingErr
    /\ Len(events) >= 2
    /\ events[Len(events)].kind # "update"
    /\ events[Len(events) - 1].kind # "update"

\* The heartbeat activity can react to a tick or to an update: it is alive
\* and is not held by something other than a heartbeat request of its own.
HeartbeatActivityFree ==
    \/ hbPc \in {"start", "select", "ping"}
    \/ loopPc = "select"

\* C14: while the send on ServerStatus waits for the caller to receive, the
\* heartbeat activity is free to send heartbeats on ticks and updates.
C14_ActivitiesDoNotStallEachOther ==
    (ssPc = "send" \/ loopPc = "send") => HeartbeatActivityFree

\* C15: once the server-status activity has delivered its status and closed
\* the channel, the heartbeat activity is still alive.
C15_HeartbeatOutlivesServerStatus ==
    srvCloses > 0 => HeartbeatActivityFree

\* No supervision activity has been started.
NothingSupervises ==
    /\ supRev = "none"
    /\ ssPc = "off"
    /\ hbPc = "off"
    /\ loopPc = "off"

\* C16: the supervision activities run only when the create has succeeded
\* and made both channels, and the Create that started them has returned, so
\* that it starts them once; after a failed create nothing supervises.
C16_StartedOnlyAfterSuccessfulCreate ==
    /\ ~NothingSupervises =>
           /\ crPc = "created"
           /\ crErr = NoError
           /\ crTunnel.ServerStatus = "made"
           /\ crTunnel.ClientStatus = "made"
    /\ crErr # NoError => NothingSupervises

\* C16 witness: Create of part_001 started the two activities after a wait
\* of two polls or more.
C16_Witness ==
    /\ crRev = "part_001"
    /\ crPc = "created"
    /\ crPolls >= 2
    /\ ssPc = "tick"
    /\ hbPc = "start"

\* C17: when the status polls end up answered with a status that is not
\* "running" and the caller receives from ServerStatus, the status is
\* eventually delivered and the channel closed, whether or not an update
\* was ever sent on ClientStatus.
C17_TerminalStatusEventuallyDelivered ==
    <>(Len(srvReceived) = 1 /\ srvCloses = 1)

\* C18: once the caller has received the status, no step is a status poll,
\* the server-status activity is never back at its tick, and nothing more is
\* sent on ServerStatus or received from it.
C18_NoPollAfterDelivery ==
    [][Len(srvReceived) >= 1 =>
          /\ ~StatusTick
          /\ ~LoopStatusTick
          /\ ssPc' # "tick"
          /\ loopPc' \notin {"first", "select"}
          /\ UNCHANGED <<supRev, ssStatus, srvSends, srvReceived, terminal>>
      ]_vars

\* C18 witness: Tunnel.loop has delivered "shutdown", closed the channel and
\* returned, and the clock went on.
C18_Witness ==
    /\ supRev = "rest.go"
    /\ loopPc = "done"
    /\ srvReceived = <<"shutdown">>
    /\ srvCloses = 1
    /\ now >= 1

\* C19: a Status call that succeeds returns "user shutdown" exactly when the
\* record's user_shutdown is present and true, whatever its status string,
\* and the status string as it is otherwise.
C19_StatusOverride ==
    (stPc = "returned" /\ ~stErr) =>
        /\ (stStatus = "user shutdown") <=> (stRecord.UserShutdown = "true")
        /\ stRecord.UserShutdown \in {"false", "null"} => stStatus = stRecord.Status

\* C19 witness: Status returned "running" for a record whose user_shutdown
\* is false.
C19_Witness ==
    /\ stPc = "returned"
    /\ stRev = "part_001"
    /\ ~stErr
    /\ stRecord.UserShutdown = "false"
    /\ stRecord.Status = "running"
    /\ stStatus = "running"

\* The create went as far as its wait, and the wait has returned.
WaitReturned ==
    /\ crPc \in {"returned", "created"}
    /\ crErr.kind \notin {"hostname", "rlimit", "post"}

\* C20: a wait that returned has polled the status once at least; with
\* timeout 0, a create whose first poll was answered with a running tunnel
\* succeeds; and a sleep that follows a poll ends a second after that poll,
\* or later.
C20_FirstPollBeforeAnySleep ==
    /\ WaitReturned => crPolls >= 1
    /\ (WaitReturned /\ crTimeout = 0 /\ crPolls = 1 /\ IsRunning(crRunningPoll)) =>
           crErr = NoError
    /\ crPc \in {"sleep", "restSleep", "adminSleep"} =>
           crWake >= crLastPollAt + TicksPerSecond

\* C21: once a status poll of the wait has failed, the create has returned
\* with the error of that poll, no poll was issued after it, and the two
\* channels of the handle are nil.
C21_FailedPollEndsCreate ==
    crFailedPoll # 0 =>
        /\ crPc \in {"returned", "created"}
        /\ crErr = OtherError("poll")
        /\ crPolls = crFailedPoll
        /\ crTunnel.ServerStatus = "nil"
        /\ crTunnel.ClientStatus = "nil"

\* A second or later poll failed, past the deadline, and the create returned.
C21_Witness ==
    /\ crRev \in {"part_001", "rest.go"}
    /\ crFailedPoll >= 2
    /\ now > crEnd
    /\ crPc = "returned"
    /\ crErr = OtherError("poll")

\* t occurs in s as a run of consecutive pieces.
ContainsSeq(s, t) ==
    \E i \in 1..(Len(s) + 1) :
        /\ i + Len(t) - 1 <= Len(s)
        /\ SubSeq(s, i, i + Len(t) - 1) = t

\* A response came back and its status is outside 200-299.
NonSuccessResponse ==
    /\ rqPc = "returned"
    /\ rqOut.response
    /\ rqServer.code \notin 200..299

\* C22: the error of a response outside 200-299 has the URL of the request,
\* the HTTP status line and the message text of the response body.
C22_RequestErrorCarriesMessage ==
    NonSuccessResponse =>
        /\ ContainsSeq(rqOut.err, rqUrl)
        /\ StatusLine(rqServer.code) \in Range(rqOut.err)
        /\ rqServer.body.msg # "" => rqServer.body.msg \in Range(rqOut.err)

\* The first piece of an error says which step made it.
ErrorClass(err) ==
    IF err = NilError THEN "none"
    ELSE CASE err[1] = "couldn't connect to " -> "connect"
           [] err[1] = "error querying from " -> "request"
           [] err[1] = "couldn't decode JSON document: " -> "decode"
           [] OTHER -> "other"

\* C23: a response is reported as a request error exactly when its status is
\* outside 200-299, and a 2xx response with a target given is decoded.
C23_RequestErrorIffNot2xx ==
    (rqPc = "returned" /\ rqOut.response) =>
        /\ ErrorClass(rqOut.err) = "request" <=> rqServer.code \notin 200..299
        /\ (rqServer.code \in 200..299 /\ rqHasTarget /\ rqServer.body.kind = "doc") =>
               rqOut.doc = rqServer.body.doc

\* C24: when executeRequest got a response, its body has been closed by the
\* time the call returns.
C24_BodyClosedOnReturn ==
    (rqPc = "returned" /\ rqOut.response) => rqOut.closes >= 1

\* The request document was encoded and the request was built.
RequestSent == rqPc = "returned" /\ rqBuild = "ok"

\* C25: the error of a request that was sent has one class, that of the first
\* step that fails: the round trip, then a status outside 200-299, then the
\* decoding of a 200 body into a target; a call that passes them has no error.
C25_ErrorClassOfFirstFailingStep ==
    RequestSent =>
        /\ ErrorClass(rqOut.err) \in {"none", "connect", "request", "decode"}
        /\ rqServer.transport # "ok" => ErrorClass(rqOut.err) = "connect"
        /\ (rqServer.transport = "ok" /\ rqServer.code \notin 200..299) =>
               ErrorClass(rqOut.err) = "request"
        /\ (rqServer.transport = "ok" /\ rqServer.code = 200) =>
               ErrorClass(rqOut.err) =
                   IF rqHasTarget /\ rqServer.body.kind \in {"text", "empty"}
                   THEN "decode" ELSE "none"

\* A 404 whose body is no JSON, asked for with a target: the status decides.
C25_Witness ==
    /\ RequestSent
    /\ rqRev = "part_001"
    /\ rqHasTarget
    /\ rqServer.transport = "ok"
    /\ rqServer.code = 404
    /\ rqServer.body.kind = "text"
    /\ ErrorClass(rqOut.err) = "request"

ShutdownCalls == {"Shutdown", "Tunnel.Shutdown", "Tunnel.ShutdownWaitForJobs"}

\* C26: a shutdown of part_001 whose request succeeded returns the
\* jobs_running count of the response and a nil error, whatever the count.
C26_ShutdownReturnsJobsRunning ==
    (rqPc = "returned" /\ rqRev = "part_001" /\ rqOp \in ShutdownCalls
         /\ rqOut.err = NilError) =>
        /\ rqRet.err = NilError
        /\ rqRet.jobs = rqServer.body.doc.jobs_running

\* A shutdown answered with jobs still running.
C26_Witness ==
    /\ rqPc = "returned"
    /\ rqOp \in ShutdownCalls
    /\ rqRev = "part_001"
    /\ rqOut.err = NilError
    /\ rqServer.body.kind = "doc"
    /\ rqServer.body.doc.jobs_running >= 1
    /\ rqRet.jobs >= 1

\* The round trip failed, or the response has a status outside 200-299.
RequestFailed ==
    \/ rqServer.transport = "refused"
    \/ rqServer.transport = "ok" /\ rqServer.code \notin 200..299

\* C27: Ping, Status and the Shutdown variants, called by the caller, return
\* a non-nil error whenever their request failed.
C27_DirectCallsSurfaceErrors ==
    (rqPc = "returned" /\ rqOp \in ShutdownCalls \cup {"Ping", "Status"} /\ RequestFailed) =>
        rqRet.err # NilError

\* A Ping to a server that is gone returns the connect error.
C27_Witness ==
    /\ rqPc = "returned"
    /\ rqOp = "Ping"
    /\ rqBuild = "ok"
    /\ rqServer.transport = "refused"
    /\ ErrorClass(rqRet.err) = "connect"

\* C28: the domain names of the POSTed document are the request's list when
\* one is given, the sentinel domain alone when the request has neither a
\* name nor a list, and the request's own when it has a name.
C28_DomainListOfCreate ==
    docPc = "posted" =>
        /\ ~docRequest.DomainNames.isNil =>
               docPosted.domain_names = docRequest.DomainNames
        /\ (docRequest.DomainNames.isNil /\ docRequest.TunnelIdentifier = "") =>
               docPosted.domain_names.elems = <<DefaultDomain>>
        /\ docRequest.TunnelIdentifier # "" =>
               docPosted.domain_names.elems = docRequest.DomainNames.elems

\* C29: once the creation response gave the handle its Id, the Id stays
\* that of the response, and every request issued for the handle by wait, by
\* the loops and by the methods names that Id.
C29_IdSetOnceAndTargeted ==
    hdPc # "idle" =>
        /\ hdTunnel.Id = hdResponseId
        /\ \A r \in hdRequests : r.id = hdResponseId

\* Wait, both loops and the three methods have issued requests.
C29_Witness ==
    /\ hdPc = "started"
    /\ hdRev = "part_001"
    /\ {r.op : r \in hdRequests} =
           {"wait", "heartbeatLoop", "serverStatusLoop"} \cup TunnelMethods

\* Two goroutines run on the handle at once and one assigns a field that
\* the other reads or assigns.
FieldRace ==
    \E g \in Goroutines, h \in Goroutines :
        /\ g # h
        /\ hdBusy[g] # "none"
        /\ hdBusy[h] # "none"
        /\ (fieldReads(hdBusy[g]) \cup fieldWrites(hdBusy[g]))
               \cap fieldWrites(hdBusy[h]) # {}

\* C30: the methods and the loops, running at once in several goroutines,
\* assign no field of the handle, and none reads a field another assigns.
C30_MethodsShareHandleSafely ==
    /\ hdWritten = {}
    /\ ~FieldRace

\* Two callers and the two loops of part_001 run on the handle at once.
C30_Witness ==
    /\ hdPc = "started"
    /\ hdBusy["caller1"] = "Status"
    /\ hdBusy["caller2"] \in {"Shutdown", "ShutdownWaitForJobs"}
    /\ hdBusy["heartbeatLoop"] # "none"
    /\ hdBusy["serverStatusLoop"] # "none"

\* The calls of part_001 that C31 names.
SingleRequestCalls == {"Status", "Ping", "Shutdown", "List", "Find", "CreateWithTimeout"}

\* C31: a call of part_001 whose request could be built made one round
\* trip, whether the request succeeded or failed, and a call whose request
\* could not be built made none; no call made a second one.
C31_OneRequestPerCall ==
    (rqPc = "returned" /\ rqRev = "part_001") =>
        rqOut.sent = IF rqBuild = "ok" THEN 1 ELSE 0

\* A heartbeat and a creation POST that failed in the transport or with a
\* status that is no success, after one round trip.
C31_Witness ==
    /\ rqPc = "returned"
    /\ rqRev = "part_001"
    /\ rqOp \in {"Ping", "CreateWithTimeout"}
    /\ rqBuild = "ok"
    /\ rqOut.err # NilError
    /\ rqOut.sent = 1

\* C31 as stated: every call of these operations issues exactly one request.
C31_ExactlyOneRequestAlways ==
    (rqPc = "returned" /\ rqRev = "part_001" /\ rqOp \in SingleRequestCalls) =>
        rqOut.sent = 1

\* C32: the request document of a call was encoded by the function the
\* client is configured with, the response was decoded by the configured
\* function, and the decoding gave what decodeJSON gives.
C32_ConfiguredCodecsRun ==
    rqPc = "returned" =>
        /\ rqOut.encoder \in {"none", rqCodec}
        /\ rqOut.decoder \in {"none", rqCodec}
        /\ rqOut.decoder # "none" =>
              /\ rqOut.err = decodeJSON(rqServer.body).err
              /\ rqOut.doc = decodeJSON(rqServer.body).doc

\* C33: a create that succeeded was ended by a status poll whose record,
\* after the user_shutdown override, is "running"; the record is the one the
\* service still serves, since it changes no more once the create is over.
C33_SuccessOnlyOnEffectiveRunning ==
    (crPc \in {"returned", "created"} /\ crErr = NoError) =>
        /\ EffectiveStatus(remote) = "running"
        /\ remote.UserShutdown # "true"

\* The code that receives from ClientStatus is at a receive: a send of the
\* caller that waits there is taken.
ClientStatusReceiverReady ==
    \/ hbPc = "select"
    \/ loopPc \in {"first", "select"}

\* C34: once the supervision has started, whatever state it is in, the
\* receiver of ClientStatus is eventually at its receive again, so that a
\* caller's send completes.
C34_ClientStatusSendCompletes ==
    (supRev # "none") ~> ClientStatusReceiverReady

\* The handle has been asked to shut the tunnel down.
ShutdownRequested ==
    \E q \in hdRequests : q.op \in {"Shutdown", "ShutdownWaitForJobs"}

\* C35: of the loops of part_001 only serverStatusLoop ever returns, and
\* when it has returned its latest status poll succeeded with a status that
\* is not "running", whether or not a shutdown was called on the handle.
C35_ShutdownStopsNoActivity ==
    hdRev = "part_001" =>
        /\ hdOver \subseteq {"serverStatusLoop"}
        /\ hdOver # {} => hdPoll = "shutdown"

\* A shutdown was requested through the handle, a pass of heartbeatLoop and
\* a poll of serverStatusLoop that says "running" are under way.
C35_Witness ==
    /\ hdRev = "part_001"
    /\ ShutdownRequested
    /\ hdOver = {}
    /\ hdBusy["heartbeatLoop"] = "heartbeatLoop"
    /\ hdBusy["serverStatusLoop"] = "serverStatusLoop"
    /\ hdPoll = "running"

\* C36: a create of part_001 or src/rest.go whose POST failed has returned
\* that error without a status poll, and its handle has no Id and no
\* channels.
C36_FailedPostReturnsAtOnce ==
    (crErr.kind = "post" /\ crRev \in {"part_001", "rest.go"}) =>
        /\ crPc \in {"returned", "created"}
        /\ crPolls = 0
        /\ crTunnel.Id = ""
        /\ crTunnel.ServerStatus = "nil"
        /\ crTunnel.ClientStatus = "nil"

\* A create whose POST failed has returned, and the Create that called it
\* is over.
C36_Witness ==
    /\ crErr.kind = "post"
    /\ crRev \in {"part_001", "rest.go"}
    /\ crPc = "created"
    /\ crPolls = 0

\* C37: when a create of part_001 or src/rest.go has returned after its
\* POST succeeded, the service still has the tunnel, and the handle has the
\* Id of the creation response; on the timeout error that Id is the one the
\* error names.
C37_TimeoutLeavesTunnelAndId ==
    (crPc \in {"returned", "created"} /\ crRev \in {"part_001", "rest.go"}
         /\ crResponse # NoResponse) =>
        /\ remote # NoRemote
        /\ crTunnel.Id = crResponse.Id
        /\ crErr.kind = "timeout" => crErr.id = crTunnel.Id

\* A create that gave up after a sleep, with the tunnel still not running.
C37_Witness ==
    /\ crPc = "returned"
    /\ crRev \in {"part_001", "rest.go"}
    /\ crErr.kind = "timeout"
    /\ crPolls >= 2
    /\ crTunnel.Id \in TunnelIds
    /\ remote.Status = "new"

\* ceil(timeout / 1s), the timeout in ticks.
CeilSeconds(timeout) == (timeout + TicksPerSecond - 1) \div TicksPerSecond

\* The create is over: CreateWithTimeout has returned.
CreateOver == crPc \in {"returned", "created"}

\* The wait sleeps until an instant after the last one of the clock.
SleepsPastTheClock ==
    /\ crPc \in {"sleep", "restSleep", "adminSleep"}
    /\ crWake > MaxTime

\* The wait of part_001 or src/rest.go has made no more status polls than
\* ceil(timeout / 1s) + 2.
WithinPollBound ==
    crRev \in {"part_001", "rest.go"} => crPolls <= CeilSeconds(crTimeout) + 2

\* C38: with requests that return, a create ends, unless the clock ends
\* first while the wait sleeps, and its wait never makes more than
\* ceil(timeout / 1s) + 2 status polls.
C38_WaitTerminatesWithinPollBound ==
    /\ []WithinPollBound
    /\ <>(CreateOver \/ SleepsPastTheClock)

\* A wait of part_001 that gave up at its last allowed poll, with a timeout
\* of a second or more.
C38_Witness ==
    /\ crPc = "returned"
    /\ crRev = "part_001"
    /\ crErr.kind = "timeout"
    /\ crTimeout >= TicksPerSecond
    /\ crPolls = CeilSeconds(crTimeout) + 2

\* C39: Tunnel.Shutdown has made one DELETE of the URL of the handle's own
\* tunnel with wait_for_jobs=0, Tunnel.ShutdownWaitForJobs one with
\* wait_for_jobs=1, and the call made no other request.
C39_ShutdownVariantsFlagAndId ==
    (rqPc = "returned" /\ rqOp \in {"Tunnel.Shutdown", "Tunnel.ShutdownWaitForJobs"}) =>
        /\ rqMethod = "DELETE"
        /\ rqUrl = TunnelUrl(rqId) \o
              <<IF rqOp = "Tunnel.Shutdown"
                THEN "?wait_for_jobs=0" ELSE "?wait_for_jobs=1">>
        /\ rqOut.sent <= 1

\* C40: the kgp_seconds_since_last_status_change of every heartbeat the
\* service has logged is 0 or more.
C40_HeartbeatSecondsNotNegative ==
    \A i \in 1..Len(events) :
        events[i].kind \in {"postUpdate", "postTick"} => events[i].value >= 0

====
